---- MODULE Spec2Model ----
(***************************************************************************)
(* Freshness-gated incremental pager of cardano-insights.                  *)
(*                                                                         *)
(* The module models the GitHub connector                                  *)
(* (src/src/cardano_insights/connectors/github.py): the embedded (DuckDB)  *)
(* freshness check, the since cursor, and the per-repository fetch loops   *)
(* of repositories, pull_requests and releases; and the networked          *)
(* (DynamoDB) freshness check of src/load/github/state.py.  SpecProd is the *)
(* production run of src/load/github/pipeline.py with its state writes,    *)
(* and SpecStable is a paged resource called twice against an upstream     *)
(* whose pages are fixed.                                                  *)
(*                                                                         *)
(* Conventions.  Python None, "" and a missing dictionary key are all      *)
(* falsy and are written 0 where the code only tests truthiness            *)
(* (timestamps are positive integers, ordered like the fixed-format        *)
(* ISO-8601 strings they stand for).  An Optional value that must keep     *)
(* None apart from 0 is a sequence: <<>> is None and <<v>> is the value v. *)
(* The since cursor is a string, as _get_last_updated_timestamp declares   *)
(* (Optional[str]) and its test expects, so that the cursor and the        *)
(* last-modified values of the records compare as strings.                 *)
(***************************************************************************)
EXTENDS Integers, Sequences, FiniteSets, TLC

VARIABLES
    resource,        \* which resource function runs: repositories, pull_requests, releases
    force_refresh,   \* its force_refresh argument
    max_per_repo,    \* its max_per_repo argument: <<>> (None) or <<n>>
    db,              \* the DuckDB destination seen by the run: repo -> row of the resource's table
    now,             \* the wall clock, in ticks
    idx,             \* position of the for loop in repos: index of the next repo to take
    repo_name,       \* the for loop's variable: "" before the first iteration
    pc,              \* "check" (top of for), "page" (top of while), "repo" (repositories' try),
                     \* "done" (the generator returned), "raised" (an exception left it)
    is_fresh,        \* local is_fresh: <<>> while unbound
    last_updated,    \* local last_updated (second component of the freshness result): 0 is None
    last_updated_timestamp, \* the since cursor: 0 is None
    page,            \* local page
    fetched_count,   \* local fetched_count
    served,          \* responses of _get_json for repo_name, in request order
    out,             \* records yielded for repo_name, in yield order
    stop,            \* how the iteration of repo_name ended: "" (running), "fresh", "cap", "error", "empty", "boundary", "fetched"
    outcome,         \* repo -> how its iteration ended; "" while it has not
    probe,           \* input of a stand-alone freshness check
    probe_result,    \* its result: <<>> before the call, then <<is_fresh, last_updated>>
    requested,       \* the page parameters of the requests made for repo_name, in request order
    upstream,        \* <<>> when the upstream answers as it likes, <<pages>> when its pages are fixed
    first,           \* <<>> during the first invocation on a fixed upstream, then <<what it did>>
    order,           \* the partitions of the call in the order of their first check, request or yield
    since_sent,      \* the since parameter of the requests made for repo_name, in request order: <<>> (not sent) or <<cursor>>
    table,           \* the DynamoDB state table: a set of items
    table0,          \* the state table as it was when the current production run began
    runs,            \* production runs begun so far
    fetched,         \* partition -> what the current production run did with it: "", "fresh", "fetched", "error"
    sinks,           \* dataset -> "" (not run yet), "returned" or "raised": pipeline.run in the current run
    upd,             \* position of run_prod_pipeline in its update_state calls
    last_write,      \* <<>> or <<the last update_state call: its partition and whether put_item succeeded>>
    environment,     \* GitHubSettings.ENVIRONMENT, the mode of the process
    last_read,       \* <<>> or <<the last freshness check of the run: its partition and whether get_item answered>>
    backend_ok,      \* whether a call to the state table has succeeded in the current production run
    max_pages,       \* the max_pages argument of proposals: <<>> (None) or <<an integer>>
    pager,           \* which proposals is running: "connector" (connectors/lido.py) or "pipeline" (load/lido)
    total_yielded,   \* the count of proposals yielded by the call
    calls            \* partition -> the locals of a call of the resource for that partition alone, calls that a consumer iterates in turns

stablevars == <<upstream, first, order, since_sent>>

prodvars == <<environment, table, table0, runs, fetched, sinks, upd, last_write, last_read,
              backend_ok>>

lidovars == <<max_pages, pager, total_yielded>>

vars == <<resource, force_refresh, max_per_repo, db, now, idx, repo_name, pc,
          is_fresh, last_updated, last_updated_timestamp, page, fetched_count,
          served, out, stop, outcome, probe, probe_result, requested,
          stablevars, prodvars, lidovars, calls>>

-----------------------------------------------------------------------------
(* Bounds and program constants *)

FRESHNESS_WINDOW_DAYS == 7

\* clock ticks per day: ages are not whole days
TicksPerDay == 2

\* the latest clock value is WindowTicks + Slack, so that ages on both sides of the window exist
Slack == 3

\* records per page the upstream serves at most
PageSize == 2

\* records the upstream holds at most for one repo (once served: empty or error)
MaxRecords == 4

\* largest max_per_repo tried
MaxCap == 2

\* the stored MAX(updated_at) of a repo that has rows: the since cursor of an incremental fetch
CursorTs == 2

WindowTicks == FRESHNESS_WINDOW_DAYS * TicksPerDay

Now == WindowTicks + Slack

\* the repos argument: the partitions, in list order
repos == <<"org/a", "org/b">>

Repos == {repos[i] : i \in 1..Len(repos)}

None == <<>>

Some(v) == <<v>>

\* variant: every value but None taken as true
TruthyNotNone(m) == m # None

\* Python truthiness of an Optional[int]
Truthy(m) == m # None /\ m[1] # 0

-----------------------------------------------------------------------------
(* The embedded backend: the DuckDB destination *)

\* Outcome of SELECT MAX(col): the query raises, returns NULL, or returns a value.
\* A value is a timestamp (datetime or ISO string) or a string that does not parse;
\* t is its instant for the first and its rank in string order for both.
CellError == [k |-> "error"]

CellNull == [k |-> "null"]

CellTs(t) == [k |-> "ts", t |-> t]

CellBad(t) == [k |-> "bad", t |-> t]

HasValue(c) == c.k \in {"ts", "bad"}

\* variant: updated_at queried only when the fetched_at query raised
FreshnessQueryOnErrorOnly(row) ==
    IF row.fetched_at.k # "error" THEN row.fetched_at
    ELSE IF HasValue(row.updated_at) THEN row.updated_at
    ELSE CellNull

\* result of the for loop over timestamp_columns = ["fetched_at", "updated_at"]:
\* the first query that returns a non-NULL value wins; a query that raises or
\* returns NULL lets the loop go on to the next column
FreshnessQuery(row) ==
    IF HasValue(row.fetched_at) THEN row.fetched_at
    ELSE IF HasValue(row.updated_at) THEN row.updated_at
    ELSE CellNull

\* is_fresh = last_updated.replace(tzinfo=None) > cutoff, cutoff = now - window
DuckDBIsFresh(t, clock) == t > clock - WindowTicks

\* variant: a destination that does not exist yet counts as up to date
check_data_freshness_missing_is_fresh(row, clock) ==
    IF row.file = "absent" THEN <<TRUE, 0>>
    ELSE IF row.file = "unreadable" THEN <<FALSE, 0>>
    ELSE LET result == FreshnessQuery(row) IN
         IF ~HasValue(result) THEN <<FALSE, 0>>
         ELSE IF result.k = "bad" THEN <<FALSE, 0>>
         ELSE <<DuckDBIsFresh(result.t, clock), result.t>>

\* variant: a stored timestamp that does not parse counts as up to date
check_data_freshness_unparsed_is_fresh(row, clock) ==
    IF row.file = "absent" THEN <<FALSE, 0>>
    ELSE IF row.file = "unreadable" THEN <<FALSE, 0>>
    ELSE LET result == FreshnessQuery(row) IN
         IF ~HasValue(result) THEN <<FALSE, 0>>
         ELSE IF result.k = "bad" THEN <<TRUE, 0>>
         ELSE <<DuckDBIsFresh(result.t, clock), result.t>>

\* _check_data_freshness of the connector: <<is_fresh, last_updated>>, 0 for None
check_data_freshness(row, clock) ==
    IF row.file = "absent" THEN <<FALSE, 0>>
    ELSE IF row.file = "unreadable" THEN <<FALSE, 0>>
    ELSE LET result == FreshnessQuery(row) IN
         IF ~HasValue(result) THEN <<FALSE, 0>>
         ELSE IF result.k = "bad" THEN <<FALSE, 0>>
         ELSE <<DuckDBIsFresh(result.t, clock), result.t>>

\* _get_last_updated_timestamp: MAX(updated_at) as stored, None on any failure
get_last_updated_timestamp(row) ==
    IF row.file # "ok" THEN 0
    ELSE IF HasValue(row.updated_at) THEN row.updated_at.t
    ELSE 0

-----------------------------------------------------------------------------
(* The networked backend: the DynamoDB state table *)

\* response of get_item for the partition's composite key: no 'Item', or an
\* item whose last_updated is missing or empty (CellNull), an ISO timestamp,
\* or a string that does not parse
ItemAbsent == [k |-> "absent"]

Item(cell) == [k |-> "item", last_updated |-> cell]

\* days_since_update = (now - last_updated).total_seconds() / (24 * 3600);
\* is_fresh = days_since_update <= freshness_window_days
DynamoIsFresh(t, clock, freshness_window_days) ==
    clock - t <= freshness_window_days * TicksPerDay

\* variant: a state table that cannot be reached counts as up to date
DynamoDBStateTracker_check_data_freshness_unreachable_is_fresh(up, item, clock, freshness_window_days) ==
    IF ~up THEN <<TRUE, 0>>
    ELSE IF item.k = "absent" THEN <<FALSE, 0>>
    ELSE IF ~HasValue(item.last_updated) THEN <<FALSE, 0>>
    ELSE IF item.last_updated.k = "bad" THEN <<FALSE, 0>>
    ELSE <<DynamoIsFresh(item.last_updated.t, clock, freshness_window_days),
           item.last_updated.t>>

\* DynamoDBStateTracker.check_data_freshness: <<is_fresh, last_updated>>, 0 for None;
\* up is FALSE when get_item raises
DynamoDBStateTracker_check_data_freshness(up, item, clock, freshness_window_days) ==
    IF ~up THEN <<FALSE, 0>>
    ELSE IF item.k = "absent" THEN <<FALSE, 0>>
    ELSE IF ~HasValue(item.last_updated) THEN <<FALSE, 0>>
    ELSE IF item.last_updated.k = "bad" THEN <<FALSE, 0>>
    ELSE <<DynamoIsFresh(item.last_updated.t, clock, freshness_window_days),
           item.last_updated.t>>

-----------------------------------------------------------------------------
(* The fetch loop *)

\* variant: the cap compared with > instead of >=
CapReachedStrict(max, count) == Truthy(max) /\ count > max[1]

\* if max_per_repo and fetched_count >= max_per_repo
CapReached(max, count) == Truthy(max) /\ count >= max[1]

\* variant: the cursor compared with < instead of <=
ReachedOldDataStrict(prs, since) ==
    /\ since # 0
    /\ Len(prs) > 0
    /\ prs[Len(prs)].ts # 0
    /\ prs[Len(prs)].ts < since

\* variant: the first record of the page inspected instead of the last
ReachedOldDataFirst(prs, since) ==
    /\ since # 0
    /\ Len(prs) > 0
    /\ prs[1].ts # 0
    /\ prs[1].ts <= since

\* oldest = prs[-1].get(key, ""); if oldest and oldest <= last_updated_timestamp
ReachedOldData(prs, since) ==
    /\ since # 0
    /\ Len(prs) > 0
    /\ prs[Len(prs)].ts # 0
    /\ prs[Len(prs)].ts <= since

\* variant: only fetched_at set on the record
InjectFetchedAtOnly(rec, repo, clock) ==
    [f \in DOMAIN rec \cup {"fetched_at"} |-> IF f = "fetched_at" THEN clock ELSE rec[f]]

\* the record as yielded: repository_full_name and fetched_at set on the
\* dictionary the upstream returned, its other keys kept
Inject(rec, repo, clock) ==
    [f \in DOMAIN rec \cup {"repository_full_name", "fetched_at"} |->
        IF f = "repository_full_name" THEN repo
        ELSE IF f = "fetched_at" THEN clock
        ELSE rec[f]]

\* variant: no cap test inside the for loop, every page yielded whole
YieldLoopWholePage(prs, i, count, max) == SubSeq(prs, i, Len(prs))

\* variant: the cap test inside the for loop made before the count is incremented
RECURSIVE YieldLoopLate(_, _, _, _)
YieldLoopLate(prs, i, count, max) ==
    IF i > Len(prs) THEN <<>>
    ELSE <<prs[i]>> \o (IF CapReached(max, count) THEN <<>>
                        ELSE YieldLoopLate(prs, i + 1, count + 1, max))

\* for pr in prs: yield pr; fetched_count += 1; if cap reached: break
RECURSIVE YieldLoop(_, _, _, _)
YieldLoop(prs, i, count, max) ==
    IF i > Len(prs) THEN <<>>
    ELSE <<prs[i]>> \o (IF CapReached(max, count + 1) THEN <<>>
                        ELSE YieldLoop(prs, i + 1, count + 1, max))

\* upstream records and pages
\* last-modified values: missing or empty (0), older than the cursor, equal to it, newer
RecTs == {0, CursorTs - 1, CursorTs, CursorTs + 1}

Records == [ts : RecTs]

RECURSIVE SeqsUpTo(_, _)
SeqsUpTo(S, n) ==
    IF n = 0 THEN {<<>>}
    ELSE LET shorter == SeqsUpTo(S, n - 1) IN
         shorter \cup {Append(s, x) : s \in {q \in shorter : Len(q) = n - 1}, x \in S}

Pages == SeqsUpTo(Records, PageSize) \ {<<>>}

RespError == [k |-> "error"]

RespOk(body) == [k |-> "ok", body |-> body]

RECURSIVE RecordsServed(_)
RecordsServed(s) ==
    IF s = <<>> THEN 0
    ELSE (IF s[1].k = "ok" THEN Len(s[1].body) ELSE 0) + RecordsServed(Tail(s))

\* what _get_json can return or raise for the next request of a repo
Responses(s) ==
    {RespError, RespOk(<<>>)}
        \cup {RespOk(p) : p \in {q \in Pages : RecordsServed(s) + Len(q) <= MaxRecords}}

\* what _get_json returns or raises for page p of a repo: anything within the
\* bounds, or page p of the fixed upstream (an empty list past its last page)
Answers(up, s, p) ==
    IF up = None THEN Responses(s)
    ELSE {IF p <= Len(up[1]) THEN up[1][p] ELSE RespOk(<<>>)}

\* variant: the page counter of the previous partition carried over
StartPageCarried(previous) == IF previous = 0 THEN 1 ELSE previous

\* page = 1
StartPage(previous) == 1

\* variant: the same page requested again
NextPageSame(p) == p

\* page += 1
NextPage(p) == p + 1

\* variant: the freshness evaluator consulted also under force_refresh
CallsFreshnessAlways(force) == TRUE

\* if not force_refresh: the freshness evaluator is consulted
CallsFreshness(force) == ~force

\* variant: the result of the freshness evaluator ignored
SkipPartitionNever(force, fresh) == FALSE

\* if is_fresh: continue
SkipPartition(force, fresh) == ~force /\ fresh

\* the since parameter of a page request: pull_requests adds it to params
\* when the cursor is set, releases builds params of page and per_page only
SinceParam(res, cursor) ==
    IF res = "pull_requests" /\ cursor # 0 THEN Some(cursor) ELSE None

\* last_updated_timestamp = None if force_refresh else _get_last_updated_timestamp(...)
SinceCursor(force, row) == IF force THEN 0 ELSE get_last_updated_timestamp(row)

\* variant: the exception of a page request not caught
OnPageErrorRaise == "raise"

\* except Exception as e: print(...); break
OnPageError == "break"

\* variant: an empty page skipped and the next page requested
OnEmptyPageNext == "next"

\* if not prs: break (an empty body is an empty list: _get_json returns [])
OnEmptyPage == "break"

\* what the issues endpoint serves: issues, and pull requests, which carry
\* the key pull_request
IssueRecords == {[ts |-> CursorTs + 1], [ts |-> CursorTs + 1, pull_request |-> TRUE]}

IssuePages == SeqsUpTo(IssueRecords, PageSize) \ {<<>>}

\* the non-empty pages _get_json can return for the next request of issues
IssueResponses(s) ==
    {RespOk(p) : p \in {q \in IssuePages : RecordsServed(s) + Len(q) <= MaxRecords}}

\* variant: the pull requests of the issues endpoint yielded too
RECURSIVE IssuesYieldLoopUnfiltered(_, _, _, _)
IssuesYieldLoopUnfiltered(data, i, count, max) ==
    IF i > Len(data) THEN <<>>
    ELSE <<data[i]>> \o (IF CapReached(max, count + 1) THEN <<>>
                         ELSE IssuesYieldLoopUnfiltered(data, i + 1, count + 1, max))

\* for issue in issues_data: if "pull_request" not in issue: yield issue;
\* fetched_count += 1; if cap reached: break
RECURSIVE IssuesYieldLoop(_, _, _, _)
IssuesYieldLoop(data, i, count, max) ==
    IF i > Len(data) THEN <<>>
    ELSE IF "pull_request" \in DOMAIN data[i]
    THEN IssuesYieldLoop(data, i + 1, count, max)
    ELSE <<data[i]>> \o (IF CapReached(max, count + 1) THEN <<>>
                         ELSE IssuesYieldLoop(data, i + 1, count + 1, max))

\* the log of partitions after a check, a request or a yield for partition r
Logged(log, r) == IF log # <<>> /\ log[Len(log)] = r THEN log ELSE Append(log, r)

\* variant: the query of the freshness evaluator without its repository filter
StateRecordAnyRepo(database, r) == database[repos[1]]

\* SELECT MAX(col) FROM github_raw.<table> WHERE repository_full_name = ?
StateRecord(database, r) == database[r]

\* variant: the for loop takes the same partition again
NextIndexSame(i) == i

\* for repo_name in repos: the next element of the list
NextIndex(i) == i + 1

\* where control goes when the while loop is left, or on continue
AfterBreak == IF idx > Len(repos) THEN "done" ELSE "check"

MapInject(prs, repo, clock) == [i \in 1..Len(prs) |-> Inject(prs[i], repo, clock)]

-----------------------------------------------------------------------------
(* The resource functions: repositories, pull_requests, releases *)

\* the destination of a repo: never loaded, loaded a tick ago, loaded longer ago than the window
RowAbsent == [file |-> "absent", fetched_at |-> CellNull, updated_at |-> CellNull]

RowFresh == [file |-> "ok", fetched_at |-> CellTs(Now - 1), updated_at |-> CellTs(CursorTs)]

RowStale == [file |-> "ok", fetched_at |-> CellTs(Now - WindowTicks - 1), updated_at |-> CellTs(CursorTs)]

Rows == {RowAbsent, RowFresh, RowStale}

Caps == {None} \cup {Some(n) : n \in 1..MaxCap}

\* the resources run_prod_pipeline runs, in its order
datasets == <<"repositories", "pull_requests", "releases">>

Datasets == {datasets[i] : i \in 1..Len(datasets)}

\* variant: the key made of the table name alone
PartitionKeyTableOnly(table_name, repo) == table_name

\* partition_key = f"{table_name}#{repo_name}" if repo_name else table_name
\* (a repo_name of None is written "": both are falsy)
PartitionKey(table_name, repo) ==
    IF repo # "" THEN table_name \o "#" \o repo ELSE table_name

\* GitHubSettings.DEFAULT_REPOS, the repos of a production run
DEFAULT_REPOS == <<"org/a">>

Partitions == {PartitionKey(d, DEFAULT_REPOS[i]) : d \in Datasets, i \in 1..Len(DEFAULT_REPOS)}

\* no fixed upstream
StableIdle == upstream = None /\ first = None /\ order = <<>> /\ since_sent = <<>>

\* no call of the Lido pagers, no calls iterated in turns
LidoIdle == max_pages = None /\ pager = "" /\ total_yielded = 0 /\ calls = <<>>

\* no production run
ProdIdle ==
    /\ table = {}
    /\ table0 = {}
    /\ runs = 0
    /\ fetched = [k \in Partitions |-> ""]
    /\ sinks = [d \in Datasets |-> ""]
    /\ upd = 0
    /\ last_write = None
    /\ last_read = None
    /\ backend_ok = FALSE

Init ==
    /\ resource \in {"repositories", "pull_requests", "releases", "issues"}
    /\ force_refresh \in (IF resource = "issues" THEN {FALSE} ELSE BOOLEAN)
    /\ max_per_repo \in (IF resource = "repositories" THEN {None} ELSE Caps)
    /\ db \in (IF resource = "issues" THEN {[r \in Repos |-> RowAbsent]}
               ELSE IF force_refresh THEN {[r \in Repos |-> RowFresh]}
               ELSE [Repos -> Rows])
    /\ now = Now
    /\ idx = 1
    /\ repo_name = ""
    /\ pc = "check"
    /\ is_fresh = None
    /\ last_updated = 0
    /\ last_updated_timestamp = 0
    /\ page = 0
    /\ fetched_count = 0
    /\ served = <<>>
    /\ out = <<>>
    /\ stop = ""
    /\ outcome = [r \in Repos |-> ""]
    /\ probe = None
    /\ probe_result = None
    /\ requested = <<>>
    /\ StableIdle
    /\ ProdIdle
    /\ LidoIdle
    /\ environment = "dev"

\* for repo_name in repos: the freshness gate, then the set-up of the fetch
CheckPartition ==
    /\ pc = "check"
    /\ resource # "issues"
    /\ idx <= Len(repos)
    /\ LET r == repos[idx]
           res == check_data_freshness(StateRecord(db, r), now)
           called == CallsFreshness(force_refresh)
           skip == called /\ SkipPartition(force_refresh, res[1])
       IN /\ repo_name' = r
          /\ idx' = NextIndex(idx)
          /\ is_fresh' = IF called THEN Some(res[1]) ELSE is_fresh
          /\ last_updated' = IF called THEN res[2] ELSE last_updated
          /\ served' = <<>>
          /\ out' = <<>>
          /\ requested' = <<>>
          /\ since_sent' = <<>>
          /\ IF skip
             THEN /\ stop' = "fresh"
                  /\ outcome' = [outcome EXCEPT ![r] = "fresh"]
                  /\ pc' = IF NextIndex(idx) > Len(repos) THEN "done" ELSE "check"
                  /\ UNCHANGED <<last_updated_timestamp, page, fetched_count>>
             ELSE /\ stop' = ""
                  /\ outcome' = outcome
                  /\ IF resource = "repositories"
                     THEN /\ pc' = "repo"
                          /\ UNCHANGED <<last_updated_timestamp, page, fetched_count>>
                     ELSE /\ pc' = "page"
                          /\ last_updated_timestamp' = SinceCursor(force_refresh, db[r])
                          /\ page' = StartPage(page)
                          /\ fetched_count' = 0
    /\ UNCHANGED <<resource, force_refresh, max_per_repo, db, now, probe, probe_result,
                   upstream, first, prodvars, lidovars, calls>>
    /\ order' = Logged(order, repos[idx])

\* repositories: one request per repo, inside try/except ... continue
FetchRepo ==
    /\ pc = "repo"
    /\ \E resp \in {RespError, RespOk(<<[ts |-> CursorTs + 1]>>)} :
          /\ served' = Append(served, resp)
          /\ IF resp.k = "error"
             THEN /\ stop' = "error"
                  /\ out' = out
             ELSE /\ stop' = "fetched"
                  /\ out' = Append(out, [ts |-> resp.body[1].ts, fetched_at |-> now])
    /\ outcome' = [outcome EXCEPT ![repo_name] = stop']
    /\ pc' = AfterBreak
    /\ UNCHANGED <<resource, force_refresh, max_per_repo, db, now, idx, repo_name,
                   is_fresh, last_updated, last_updated_timestamp, page, fetched_count,
                   probe, probe_result, requested, upstream, first, since_sent, prodvars, lidovars, calls>>
    /\ order' = Logged(order, repo_name)

\* while True: if max_per_repo and fetched_count >= max_per_repo: break
CapStop ==
    /\ pc = "page"
    /\ CapReached(max_per_repo, fetched_count)
    /\ stop' = "cap"
    /\ outcome' = [outcome EXCEPT ![repo_name] = "cap"]
    /\ pc' = AfterBreak
    /\ UNCHANGED <<resource, force_refresh, max_per_repo, db, now, idx, repo_name,
                   is_fresh, last_updated, last_updated_timestamp, page, fetched_count,
                   served, out, probe, probe_result, requested, stablevars, prodvars, lidovars, calls>>

\* _get_json raises: except Exception: break
PageError ==
    /\ pc = "page"
    /\ ~CapReached(max_per_repo, fetched_count)
    /\ RespError \in Answers(upstream, served, page)
    /\ served' = Append(served, RespError)
    /\ requested' = Append(requested, page)
    /\ since_sent' = Append(since_sent, SinceParam(resource, last_updated_timestamp))
    /\ stop' = "error"
    /\ outcome' = [outcome EXCEPT ![repo_name] = "error"]
    /\ pc' = IF OnPageError = "break" THEN AfterBreak ELSE "raised"
    /\ UNCHANGED <<resource, force_refresh, max_per_repo, db, now, idx, repo_name,
                   is_fresh, last_updated, last_updated_timestamp, page, fetched_count,
                   out, probe, probe_result, upstream, first, prodvars, lidovars, calls>>
    /\ order' = Logged(order, repo_name)

\* if not prs: break
PageEmpty ==
    /\ pc = "page"
    /\ ~CapReached(max_per_repo, fetched_count)
    /\ RespOk(<<>>) \in Answers(upstream, served, page)
    /\ served' = Append(served, RespOk(<<>>))
    /\ requested' = Append(requested, page)
    /\ since_sent' = Append(since_sent, SinceParam(resource, last_updated_timestamp))
    /\ IF OnEmptyPage = "break"
       THEN /\ stop' = "empty"
            /\ outcome' = [outcome EXCEPT ![repo_name] = "empty"]
            /\ pc' = AfterBreak
            /\ page' = page
       ELSE /\ page' = NextPage(page)
            /\ UNCHANGED <<stop, outcome, pc>>
    /\ UNCHANGED <<resource, force_refresh, max_per_repo, db, now, idx, repo_name,
                   is_fresh, last_updated, last_updated_timestamp, fetched_count,
                   out, probe, probe_result, upstream, first, prodvars, lidovars, calls>>
    /\ order' = Logged(order, repo_name)

\* a non-empty page whose last record is not newer than the cursor: break, nothing yielded
PageBoundary ==
    /\ pc = "page"
    /\ resource # "issues"
    /\ ~CapReached(max_per_repo, fetched_count)
    /\ \E resp \in Answers(upstream, served, page) :
          /\ resp.k = "ok"
          /\ resp.body # <<>>
          /\ ReachedOldData(resp.body, last_updated_timestamp)
          /\ served' = Append(served, resp)
    /\ requested' = Append(requested, page)
    /\ since_sent' = Append(since_sent, SinceParam(resource, last_updated_timestamp))
    /\ stop' = "boundary"
    /\ outcome' = [outcome EXCEPT ![repo_name] = "boundary"]
    /\ pc' = AfterBreak
    /\ UNCHANGED <<resource, force_refresh, max_per_repo, db, now, idx, repo_name,
                   is_fresh, last_updated, last_updated_timestamp, page, fetched_count,
                   out, probe, probe_result, upstream, first, prodvars, lidovars, calls>>
    /\ order' = Logged(order, repo_name)

\* a non-empty page past the boundary test: the for loop yields, then page += 1
PageYield ==
    /\ pc = "page"
    /\ resource # "issues"
    /\ ~CapReached(max_per_repo, fetched_count)
    /\ \E resp \in Answers(upstream, served, page) :
          /\ resp.k = "ok"
          /\ resp.body # <<>>
          /\ ~ReachedOldData(resp.body, last_updated_timestamp)
          /\ served' = Append(served, resp)
          /\ LET got == YieldLoop(resp.body, 1, fetched_count, max_per_repo)
             IN /\ out' = out \o MapInject(got, repo_name, now)
                /\ fetched_count' = fetched_count + Len(got)
    /\ requested' = Append(requested, page)
    /\ since_sent' = Append(since_sent, SinceParam(resource, last_updated_timestamp))
    /\ page' = NextPage(page)
    /\ UNCHANGED <<resource, force_refresh, max_per_repo, db, now, idx, repo_name, pc,
                   is_fresh, last_updated, last_updated_timestamp, stop, outcome,
                   probe, probe_result, upstream, first, prodvars, lidovars, calls>>
    /\ order' = Logged(order, repo_name)

\* issues: for repo_name in repos, without freshness gate and without cursor
IssuesStart ==
    /\ pc = "check"
    /\ resource = "issues"
    /\ idx <= Len(repos)
    /\ repo_name' = repos[idx]
    /\ idx' = NextIndex(idx)
    /\ page' = StartPage(page)
    /\ fetched_count' = 0
    /\ served' = <<>>
    /\ out' = <<>>
    /\ requested' = <<>>
    /\ since_sent' = <<>>
    /\ stop' = ""
    /\ pc' = "page"
    /\ order' = Logged(order, repos[idx])
    /\ UNCHANGED <<resource, force_refresh, max_per_repo, db, now, is_fresh, last_updated,
                   last_updated_timestamp, outcome, probe, probe_result, upstream, first,
                   prodvars, lidovars, calls>>

\* issues: a non-empty page; its issues are yielded, its pull requests are
\* not, then page += 1
IssuesPageYield ==
    /\ pc = "page"
    /\ resource = "issues"
    /\ ~CapReached(max_per_repo, fetched_count)
    /\ \E resp \in IssueResponses(served) :
          /\ served' = Append(served, resp)
          /\ LET got == IssuesYieldLoop(resp.body, 1, fetched_count, max_per_repo)
             IN /\ out' = out \o MapInject(got, repo_name, now)
                /\ fetched_count' = fetched_count + Len(got)
    /\ requested' = Append(requested, page)
    /\ since_sent' = Append(since_sent, SinceParam(resource, last_updated_timestamp))
    /\ page' = NextPage(page)
    /\ order' = Logged(order, repo_name)
    /\ UNCHANGED <<resource, force_refresh, max_per_repo, db, now, idx, repo_name, pc,
                   is_fresh, last_updated, last_updated_timestamp, stop, outcome,
                   probe, probe_result, upstream, first, prodvars, lidovars, calls>>

Next ==
    \/ CheckPartition
    \/ FetchRepo
    \/ CapStop
    \/ PageError
    \/ PageEmpty
    \/ PageBoundary
    \/ PageYield
    \/ IssuesStart
    \/ IssuesPageYield

Spec == Init /\ [][Next]_vars

-----------------------------------------------------------------------------
(* The freshness evaluator on its own, for both backends *)

\* stored instants on both sides of the window, half a day apart when a day is two ticks
Instants == {Now - WindowTicks - 1, Now - WindowTicks, Now - WindowTicks + 1, Now - 1}

Cells == {CellError, CellNull, CellBad(1)} \cup {CellTs(t) : t \in Instants}

DuckDBProbes ==
    {[backend |-> "duckdb", row |-> [file |-> f, fetched_at |-> CellNull, updated_at |-> CellNull]] :
        f \in {"absent", "unreadable"}}
    \cup {[backend |-> "duckdb", row |-> [file |-> "ok", fetched_at |-> a, updated_at |-> u]] :
        a \in Cells, u \in Cells}

DynamoProbes ==
    {[backend |-> "dynamodb", up |-> u, item |-> i] :
        u \in BOOLEAN, i \in {ItemAbsent} \cup {Item(c) : c \in Cells \ {CellError}}}

InitFresh ==
    /\ probe \in {Some(p) : p \in DuckDBProbes \cup DynamoProbes}
    /\ probe_result = None
    /\ now \in {Now - 1, Now}
    /\ resource = "repositories"
    /\ force_refresh = FALSE
    /\ max_per_repo = None
    /\ db = [r \in Repos |-> RowAbsent]
    /\ idx = 1
    /\ repo_name = ""
    /\ pc = "idle"
    /\ is_fresh = None
    /\ last_updated = 0
    /\ last_updated_timestamp = 0
    /\ page = 0
    /\ fetched_count = 0
    /\ served = <<>>
    /\ out = <<>>
    /\ stop = ""
    /\ outcome = [r \in Repos |-> ""]
    /\ requested = <<>>
    /\ StableIdle
    /\ ProdIdle
    /\ LidoIdle
    /\ environment = "dev"

\* one call of the freshness evaluator of the probed backend
Evaluate ==
    /\ probe # None
    /\ probe_result = None
    /\ LET p == probe[1]
       IN probe_result' =
            Some(IF p.backend = "duckdb"
                 THEN check_data_freshness(p.row, now)
                 ELSE DynamoDBStateTracker_check_data_freshness(
                          p.up, p.item, now, FRESHNESS_WINDOW_DAYS))
    /\ UNCHANGED <<resource, force_refresh, max_per_repo, db, now, idx, repo_name, pc,
                   is_fresh, last_updated, last_updated_timestamp, page, fetched_count,
                   served, out, stop, outcome, probe, requested, stablevars, prodvars, lidovars, calls>>

NextFresh == Evaluate

SpecFresh == InitFresh /\ [][NextFresh]_vars

-----------------------------------------------------------------------------
(* The production run: run_prod_pipeline with the DynamoDB state table *)

\* production runs followed
MaxRuns == 2


\* the items of the state table under one pipeline_state_id
ItemsOf(tbl, key) == {it \in tbl : it.pipeline_state_id = key}

\* response of table.get_item(Key={'pipeline_state_id': partition_key})
GetItem(tbl, key) ==
    IF ItemsOf(tbl, key) = {} THEN ItemAbsent
    ELSE Item(CellTs((CHOOSE it \in ItemsOf(tbl, key) : TRUE).last_updated))

\* variant: the item added next to the items the table already holds
PutItemAppend(tbl, key, t) ==
    tbl \cup {[pipeline_state_id |-> key, last_updated |-> t]}

\* table.put_item(Item=item): the item replaces the one with the same key
PutItem(tbl, key, t) ==
    (tbl \ ItemsOf(tbl, key)) \cup {[pipeline_state_id |-> key, last_updated |-> t]}

\* variant: a failed write loses the record
OnWriteErrorDrop(tbl, key) == tbl \ ItemsOf(tbl, key)

\* except ClientError / except Exception: print(...), nothing written
OnWriteError(tbl, key) == tbl

\* DynamoDBStateTracker.update_state without additional_metadata: the table
\* after the call; ok is FALSE when put_item raises
update_state(tbl, key, clock, ok) ==
    IF ok THEN PutItem(tbl, key, clock) ELSE OnWriteError(tbl, key)

\* variant: a tracker in every mode
get_state_tracker_any_mode(mode, constructible) ==
    IF constructible THEN Some("DynamoDBStateTracker") ELSE None

\* get_state_tracker: a tracker in prod when one can be made, None otherwise
get_state_tracker(mode, constructible) ==
    IF mode = "prod"
    THEN IF constructible THEN Some("DynamoDBStateTracker") ELSE None
    ELSE None

\* variant: without an answer of the state table the DuckDB destination is read
pipeline_check_data_freshness_fallback(mode, up, item, row, clock) ==
    IF mode = "prod" /\ up
    THEN DynamoDBStateTracker_check_data_freshness(up, item, clock, FRESHNESS_WINDOW_DAYS)
    ELSE check_data_freshness(row, clock)

\* variant: the state table read in every mode
pipeline_check_data_freshness_always_networked(mode, up, item, row, clock) ==
    DynamoDBStateTracker_check_data_freshness(up, item, clock, FRESHNESS_WINDOW_DAYS)

\* _check_data_freshness of the pipeline: the state table in prod (no tracker
\* gives (False, None), like a failed get_item), the DuckDB destination otherwise
pipeline_check_data_freshness(mode, up, item, row, clock) ==
    IF mode = "prod"
    THEN DynamoDBStateTracker_check_data_freshness(up, item, clock, FRESHNESS_WINDOW_DAYS)
    ELSE check_data_freshness(row, clock)

\* the n-th update_state call of run_prod_pipeline: for each repo, the three datasets
UpdateKey(n) ==
    PartitionKey(datasets[((n - 1) % Len(datasets)) + 1],
                 DEFAULT_REPOS[((n - 1) \div Len(datasets)) + 1])

Updates == Len(datasets) * Len(DEFAULT_REPOS)

\* variant: an exception of pipeline.run swallowed
OnSinkErrorContinue == "continue"

\* pipeline.run is not inside a try: its exception leaves run_prod_pipeline
OnSinkError == "raise"

\* the local DuckDB file of the production host: none, or one left with rows
ProdDbs == {[r \in Repos |-> RowAbsent], [r \in Repos |-> RowStale]}

InitProd ==
    /\ resource = datasets[1]
    /\ force_refresh = FALSE
    /\ max_per_repo = None
    /\ db \in ProdDbs
    /\ now = Now
    /\ idx = 1
    /\ repo_name = ""
    /\ pc = "start"
    /\ is_fresh = None
    /\ last_updated = 0
    /\ last_updated_timestamp = 0
    /\ page = 0
    /\ fetched_count = 0
    /\ served = <<>>
    /\ out = <<>>
    /\ stop = ""
    /\ outcome = [r \in Repos |-> ""]
    /\ probe = None
    /\ probe_result = None
    /\ requested = <<>>
    /\ StableIdle
    /\ ProdIdle
    /\ LidoIdle
    /\ environment = "prod"

\* run_prod_pipeline is entered; the clock has moved on since the previous run
StartRun ==
    /\ pc \in {"start", "finished", "raised"}
    /\ runs < MaxRuns
    /\ runs' = runs + 1
    /\ now' \in (IF runs = 0 THEN {now} ELSE {now + 1, now + WindowTicks + 1})
    /\ table0' = table
    /\ fetched' = [k \in Partitions |-> ""]
    /\ sinks' = [d \in Datasets |-> ""]
    /\ upd' = 0
    /\ last_write' = None
    /\ last_read' = None
    /\ backend_ok' = FALSE
    /\ resource' = datasets[1]
    /\ idx' = 1
    /\ repo_name' = ""
    /\ is_fresh' = None
    /\ last_updated' = 0
    /\ last_updated_timestamp' = 0
    /\ stop' = ""
    /\ pc' = "run"
    /\ UNCHANGED <<force_refresh, max_per_repo, db, page, fetched_count, served, out,
                   outcome, probe, probe_result, requested, stablevars, lidovars, calls, environment, table>>

\* one iteration of the for loop of the running resource: the freshness gate
\* on the state table, then the fetch of the partition, which ends normally
\* or on a page error
ProdPartition ==
    /\ pc = "run"
    /\ idx <= Len(DEFAULT_REPOS)
    /\ \E up \in BOOLEAN, fetch_ok \in BOOLEAN :
          LET r == DEFAULT_REPOS[idx]
              key == PartitionKey(resource, r)
              res == pipeline_check_data_freshness(environment, up, GetItem(table, key), db[r], now)
              called == CallsFreshness(force_refresh)
              skip == called /\ SkipPartition(force_refresh, res[1])
          IN /\ repo_name' = r
             /\ idx' = idx + 1
             /\ is_fresh' = IF called THEN Some(res[1]) ELSE is_fresh
             /\ last_updated' = IF called THEN res[2] ELSE last_updated
             /\ stop' = IF skip THEN "fresh" ELSE IF fetch_ok THEN "fetched" ELSE "error"
             /\ fetched' = [fetched EXCEPT ![key] = stop']
             /\ last_updated_timestamp' =
                    IF skip \/ resource = "repositories" THEN last_updated_timestamp
                    ELSE SinceCursor(force_refresh, db[r])
             /\ pc' = IF idx + 1 > Len(DEFAULT_REPOS) THEN "load" ELSE "run"
             /\ last_read' = IF called THEN Some([key |-> key, up |-> up]) ELSE last_read
             /\ backend_ok' = (backend_ok \/ (called /\ up))
    /\ UNCHANGED <<resource, force_refresh, max_per_repo, db, now, page, fetched_count,
                   served, out, outcome, probe, probe_result, requested, stablevars, lidovars, calls, environment,
                   table, table0, runs, sinks, upd, last_write>>

\* pipeline.run(...) of the running resource returns or raises
SinkLoad ==
    /\ pc = "load"
    /\ \E ok \in BOOLEAN :
          /\ sinks' = [sinks EXCEPT ![resource] = IF ok THEN "returned" ELSE "raised"]
          /\ IF ~ok /\ OnSinkError = "raise"
             THEN /\ pc' = "raised"
                  /\ UNCHANGED <<resource, idx>>
             ELSE IF resource = datasets[Len(datasets)]
             THEN /\ pc' = "state"
                  /\ UNCHANGED <<resource, idx>>
             ELSE /\ pc' = "run"
                  /\ resource' = datasets[(CHOOSE i \in 1..Len(datasets) : datasets[i] = resource) + 1]
                  /\ idx' = 1
    /\ UNCHANGED <<force_refresh, max_per_repo, db, now, repo_name, is_fresh, last_updated,
                   last_updated_timestamp, page, fetched_count, served, out, stop, outcome,
                   probe, probe_result, requested, stablevars, lidovars, calls, environment,
                   table, table0, runs, fetched, upd, last_write, last_read, backend_ok>>

\* state_tracker = get_state_tracker(); if state_tracker: ...
GetStateTracker ==
    /\ pc = "state"
    /\ \E constructible \in BOOLEAN :
          pc' = IF get_state_tracker(environment, constructible) # None
                THEN "update" ELSE "finished"
    /\ upd' = 1
    /\ UNCHANGED <<resource, force_refresh, max_per_repo, db, now, idx, repo_name, is_fresh,
                   last_updated, last_updated_timestamp, page, fetched_count, served, out,
                   stop, outcome, probe, probe_result, requested, stablevars, lidovars, calls, environment,
                   table, table0, runs, fetched, sinks, last_write, last_read, backend_ok>>

\* one state_tracker.update_state(dataset, repo) call of the loop
UpdateState ==
    /\ pc = "update"
    /\ upd <= Updates
    /\ \E ok \in BOOLEAN :
          /\ table' = update_state(table, UpdateKey(upd), now, ok)
          /\ last_write' = Some([key |-> UpdateKey(upd), ok |-> ok])
          /\ backend_ok' = (backend_ok \/ ok)
    /\ upd' = upd + 1
    /\ pc' = IF upd + 1 > Updates THEN "finished" ELSE "update"
    /\ UNCHANGED <<resource, force_refresh, max_per_repo, db, now, idx, repo_name, is_fresh,
                   last_updated, last_updated_timestamp, page, fetched_count, served, out,
                   stop, outcome, probe, probe_result, requested, stablevars, lidovars, calls, environment,
                   table0, runs, fetched, sinks, last_read>>

NextProd ==
    \/ StartRun
    \/ ProdPartition
    \/ SinkLoad
    \/ GetStateTracker
    \/ UpdateState

SpecProd == InitProd /\ [][NextProd]_vars

-----------------------------------------------------------------------------
(* The paged resources called twice against an upstream that does not change *)

\* last-modified values of the records of a fixed upstream: equal to the cursor, newer
StableTs == {CursorTs, CursorTs + 1}

\* number of pages of per_page records that n records fill
NumPages(n) == (n + PageSize - 1) \div PageSize

\* page p of the records whose last-modified values are tss, in upstream
\* order; a record's id is its position in that order
PageOf(tss, p) ==
    [i \in 1..(IF p * PageSize <= Len(tss) THEN PageSize ELSE Len(tss) - (p - 1) * PageSize) |->
        [id |-> (p - 1) * PageSize + i, ts |-> tss[(p - 1) * PageSize + i]]]

\* the answers of the upstream to page = 1, 2, ...: its pages, but for page
\* err (when err > 0), whose request raises every time
StablePages(tss, err) ==
    [p \in 1..NumPages(Len(tss)) |-> IF p = err THEN RespError ELSE RespOk(PageOf(tss, p))]

Upstreams ==
    {StablePages(tss, err) : tss \in SeqsUpTo(StableTs, MaxRecords), err \in 0..NumPages(MaxRecords)}

\* a call with repos whose first partition is fresh and whose second one has
\* no rows yet or rows older than the window
InitStable ==
    /\ resource \in {"pull_requests", "releases"}
    /\ force_refresh = FALSE
    /\ max_per_repo \in Caps
    /\ db \in {[r \in Repos |-> IF r = repos[1] THEN RowFresh ELSE row] : row \in {RowAbsent, RowStale}}
    /\ upstream \in {Some(u) : u \in Upstreams}
    /\ first = None
    /\ order = <<>>
    /\ since_sent = <<>>
    /\ now = Now
    /\ idx = 1
    /\ repo_name = ""
    /\ pc = "check"
    /\ is_fresh = None
    /\ last_updated = 0
    /\ last_updated_timestamp = 0
    /\ page = 0
    /\ fetched_count = 0
    /\ served = <<>>
    /\ out = <<>>
    /\ stop = ""
    /\ outcome = [r \in Repos |-> ""]
    /\ probe = None
    /\ probe_result = None
    /\ requested = <<>>
    /\ ProdIdle
    /\ LidoIdle
    /\ environment = "dev"

\* the resource function is called again with the same arguments, the
\* destination and the upstream being what they were
Reinvoke ==
    /\ pc = "done"
    /\ upstream # None
    /\ first = None
    /\ first' = Some([requested |-> requested, out |-> out, stop |-> stop])
    /\ order' = <<>>
    /\ idx' = 1
    /\ repo_name' = ""
    /\ pc' = "check"
    /\ is_fresh' = None
    /\ last_updated' = 0
    /\ last_updated_timestamp' = 0
    /\ served' = <<>>
    /\ out' = <<>>
    /\ requested' = <<>>
    /\ since_sent' = <<>>
    /\ stop' = ""
    /\ outcome' = [r \in Repos |-> ""]
    /\ UNCHANGED <<resource, force_refresh, max_per_repo, db, now, page, fetched_count,
                   probe, probe_result, upstream, prodvars, lidovars, calls>>

NextStable ==
    \/ CheckPartition
    \/ CapStop
    \/ PageError
    \/ PageEmpty
    \/ PageBoundary
    \/ PageYield
    \/ Reinvoke

SpecStable == InitStable /\ [][NextStable]_vars

-----------------------------------------------------------------------------
(* Vocabulary of the properties *)

\* the iteration of repo_name is over: control is back at the for loop or past it
Ended == repo_name # "" /\ pc \in {"check", "done"}

Min(a, b) == IF a <= b THEN a ELSE b

\* the records of the pages of s, in page order
RECURSIVE Bodies(_)
Bodies(s) ==
    IF s = <<>> THEN <<>>
    ELSE (IF s[1].k = "ok" THEN s[1].body ELSE <<>>) \o Bodies(Tail(s))

\* a page whose last record has a last-modified value that is not after the cursor
OldPage(resp, since) ==
    /\ since # 0
    /\ resp.k = "ok"
    /\ resp.body # <<>>
    /\ resp.body[Len(resp.body)].ts >= 1
    /\ resp.body[Len(resp.body)].ts <= since

\* s without its last response
Front(s) == SubSeq(s, 1, Len(s) - 1)

\* the pages served before the stop: all of them, but for a last page that is old
BeforeStop(s, since) ==
    IF s # <<>> /\ OldPage(s[Len(s)], since) THEN Front(s) ELSE s

\* recs as the run of repo_name yields them
AsYielded(recs) ==
    [i \in 1..Len(recs) |->
        [ts |-> recs[i].ts, repository_full_name |-> repo_name, fetched_at |-> now]]

\* the first records of recs, up to the cap when there is one
UpToCap(recs) ==
    IF max_per_repo # None /\ max_per_repo[1] >= 1
    THEN SubSeq(recs, 1, Min(max_per_repo[1], Len(recs)))
    ELSE recs

Paged == resource \in {"pull_requests", "releases"}

-----------------------------------------------------------------------------
(* Properties *)

\* C1: without force_refresh, a partition the freshness evaluator reports
\* fresh gets no upstream request and yields no record, and the loop is back
\* at the next partition (or past the last one).
C1_FreshSkip ==
    (pc # "idle" /\ ~force_refresh /\ is_fresh = Some(TRUE)) =>
        /\ served = <<>>
        /\ out = <<>>
        /\ stop = "fresh"
        /\ outcome[repo_name] = "fresh"
        /\ pc = (IF idx > Len(repos) THEN "done" ELSE "check")

\* the first partition was skipped as fresh and the second one is yielding
C1_Witness ==
    /\ ~force_refresh
    /\ outcome[repos[1]] = "fresh"
    /\ db[repos[1]] = RowFresh
    /\ repo_name = repos[2]
    /\ Len(out) >= 1

\* the stored last_updated the evaluator decides on, when the backend can be read
StoredLastUpdated(p) ==
    IF p.backend = "duckdb"
    THEN (IF p.row.file = "ok" THEN p.row.fetched_at ELSE CellNull)
    ELSE (IF p.up /\ p.item.k = "item" THEN p.item.last_updated ELSE CellNull)

\* C2: for both backends, a stored last_updated that parses gives
\* fresh = (now - last_updated <= window) and is returned as second component,
\* fresh or stale.
C2_FreshIffWithinWindow ==
    (probe_result # None /\ StoredLastUpdated(probe[1]).k = "ts") =>
        LET t == StoredLastUpdated(probe[1]).t
        IN probe_result[1] = <<now - t <= WindowTicks, t>>

\* the partition has no state record: no item, an item without last_updated,
\* no destination database, or no row of the partition in it
AbsentState(p) ==
    IF p.backend = "duckdb"
    THEN \/ p.row.file = "absent"
         \/ p.row.file = "ok" /\ p.row.fetched_at = CellNull /\ p.row.updated_at = CellNull
    ELSE p.up /\ (p.item = ItemAbsent \/ p.item = Item(CellNull))

\* C3: a freshness check of a partition without state record returns
\* (false, null), for both backends.
C3_AbsentStateForcesFetch ==
    (probe_result # None /\ AbsentState(probe[1])) => probe_result[1] = <<FALSE, 0>>

\* the check of a partition whose destination database does not exist has returned
C3_Witness ==
    /\ probe_result = Some(<<FALSE, 0>>)
    /\ probe[1].backend = "duckdb"
    /\ probe[1].row.file = "absent"

\* C4: under force_refresh the freshness evaluator is never called, no
\* partition is skipped, no since cursor is used, the boundary never stops a
\* partition, and the records yielded are those of the non-empty pages
\* served, up to the cap.
C4_ForceRefresh ==
    (pc # "idle" /\ force_refresh) =>
        /\ is_fresh = None
        /\ last_updated_timestamp = 0
        /\ \A r \in Repos : outcome[r] \notin {"fresh", "boundary"}
        /\ stop \notin {"fresh", "boundary"}
        /\ Ended => (Len(served) >= 1 \/ (max_per_repo # None /\ max_per_repo[1] < 0))
        /\ Paged => out = AsYielded(UpToCap(Bodies(served)))

\* both partitions are fetched although their state is fresh
C4_Witness ==
    /\ force_refresh
    /\ db[repos[1]] = RowFresh
    /\ db[repos[2]] = RowFresh
    /\ outcome[repos[1]] \in {"empty", "cap"}
    /\ repo_name = repos[2]
    /\ Paged
    /\ Len(served) >= 2
    /\ Len(out) >= 2

\* C5: in an incremental fetch, a page whose last record has a last-modified
\* value <= since is the last page requested for the partition.
C5_BoundaryStop ==
    \A n \in 1..Len(served) :
        OldPage(served[n], last_updated_timestamp) => (n = Len(served) /\ pc # "page")

\* the boundary was found on page 2 of releases
C5_Witness ==
    /\ resource = "releases"
    /\ stop = "boundary"
    /\ Len(served) = 2
    /\ served[2].body[Len(served[2].body)].ts < last_updated_timestamp

\* C6: when the last page served is old, none of its records is yielded: the
\* records yielded are those of the pages before it, in page order (up to the
\* cap when there is one).
C6_BoundaryPageDiscarded ==
    (Paged /\ served # <<>> /\ OldPage(served[Len(served)], last_updated_timestamp)) =>
        out = AsYielded(UpToCap(Bodies(Front(served))))

\* without cap, page 1 was yielded and page 2, which starts with a record
\* newer than the cursor, was discarded
C6_Witness ==
    /\ max_per_repo = None
    /\ stop = "boundary"
    /\ Len(served) = 2
    /\ Len(out) = Len(served[1].body)
    /\ Len(served[2].body) = 2
    /\ served[2].body[1].ts > last_updated_timestamp

\* every response was a non-empty page that is not old: the upstream never
\* ran out, never failed and never served the boundary
AllYieldable(s, since) ==
    /\ s # <<>>
    /\ \A i \in 1..Len(s) : s[i].k = "ok" /\ s[i].body # <<>> /\ ~OldPage(s[i], since)

\* C7 as stated: with max_per_repo = N >= 1, a partition for which the
\* upstream served more than N records ends with at least N and at most
\* N + PageSize records yielded.
C7_AtLeastCapOfServed ==
    (Paged /\ Ended /\ stop # "fresh" /\ max_per_repo # None /\ max_per_repo[1] >= 1
        /\ RecordsServed(served) > max_per_repo[1]) =>
        /\ Len(out) >= max_per_repo[1]
        /\ Len(out) <= max_per_repo[1] + PageSize

\* C7 as amended: with max_per_repo = N >= 1, a partition makes at most N
\* page requests whatever the upstream serves, and when the upstream never
\* ran out (nor failed, nor served a page that the boundary test discards),
\* or served more than N records before the stop, the partition ends at the
\* cap with at least N and at most N + PageSize records yielded.
C7_CapEnforcement ==
    (Paged /\ max_per_repo # None /\ max_per_repo[1] >= 1) =>
        /\ Len(served) <= max_per_repo[1]
        /\ (Ended /\ stop # "fresh" /\
               (\/ AllYieldable(served, last_updated_timestamp)
                \/ RecordsServed(BeforeStop(served, last_updated_timestamp))
                       > max_per_repo[1])) =>
              /\ stop = "cap"
              /\ Len(out) >= max_per_repo[1]
              /\ Len(out) <= max_per_repo[1] + PageSize

\* the cap ended a partition whose every request was answered by a non-empty page
C7_Witness ==
    /\ Ended
    /\ stop = "cap"
    /\ max_per_repo = Some(MaxCap)
    /\ Len(served) = MaxCap
    /\ AllYieldable(served, last_updated_timestamp)
    /\ Len(out) = MaxCap

\* C8: with max_per_repo = N >= 1 the yielded count of a partition never
\* exceeds N, equals fetched_count, ends as min(N, records of the pages
\* served before the stop), and no page is requested once N records were
\* served.
C8_CapExact ==
    (Paged /\ max_per_repo # None /\ max_per_repo[1] >= 1) =>
        /\ Len(out) <= max_per_repo[1]
        /\ stop # "fresh" => fetched_count = Len(out)
        /\ Len(out) = Min(max_per_repo[1],
                          RecordsServed(BeforeStop(served, last_updated_timestamp)))
        /\ \A i \in 2..Len(served) :
              RecordsServed(SubSeq(served, 1, i - 1)) < max_per_repo[1]

\* the upstream served more than N records and exactly N were yielded
C8_Witness ==
    /\ Ended
    /\ stop = "cap"
    /\ max_per_repo # None
    /\ Len(out) = max_per_repo[1]
    /\ RecordsServed(served) > max_per_repo[1]
    /\ Len(served) = 2

\* C9 as stated: every page the fetcher starts yielding is yielded whole.
C9_WholePageYielded ==
    Paged => out = AsYielded(Bodies(BeforeStop(served, last_updated_timestamp)))

\* C9 as amended: the cap is tested before each request and after each
\* yielded record, so the records yielded are the first N records of the
\* pages served before the stop (all of them without cap): a page that
\* crosses the cap is cut in the middle.
C9_PageCutAtCap ==
    Paged => out = AsYielded(UpToCap(Bodies(BeforeStop(served, last_updated_timestamp))))

\* a page of two records was cut after its first record
C9_Witness ==
    /\ Paged
    /\ max_per_repo = Some(1)
    /\ Len(served) = 1
    /\ served[1].k = "ok"
    /\ Len(served[1].body) = 2
    /\ Len(out) = 1
    /\ out[1].ts = served[1].body[1].ts

\* C10: a page error ends the partition and nothing else: no exception
\* leaves the resource, the records yielded before the error stay, the loop
\* is back at the next partition, every partition of the list gets its turn,
\* and each fetch starts at page 1 with a count of 0.
C10_ErrorIsolated ==
    /\ pc # "raised"
    /\ stop = "error" =>
          /\ pc = (IF idx > Len(repos) THEN "done" ELSE "check")
          /\ outcome[repo_name] = "error"
          /\ served # <<>> /\ served[Len(served)] = RespError
          /\ Paged => out = AsYielded(UpToCap(Bodies(Front(served))))
    /\ pc = "done" => \A r \in Repos : outcome[r] # ""
    /\ (pc = "page" /\ served = <<>>) => (page = 1 /\ fetched_count = 0)

\* the first partition ended on an error; the second one yielded a page and
\* then ended on an error too
C10_Witness ==
    /\ Paged
    /\ outcome[repos[1]] = "error"
    /\ repo_name = repos[2]
    /\ stop = "error"
    /\ Len(served) = 2
    /\ Len(out) >= 1

\* the backend fails the read: the state table cannot be reached, the
\* database cannot be opened, or a query raises and no column gives a value
BackendError(p) ==
    IF p.backend = "duckdb"
    THEN \/ p.row.file = "unreadable"
         \/ /\ p.row.file = "ok"
            /\ ~HasValue(p.row.fetched_at)
            /\ ~HasValue(p.row.updated_at)
            /\ CellError \in {p.row.fetched_at, p.row.updated_at}
    ELSE ~p.up

\* C11: a freshness check returns a result whatever the backend does; when
\* the backend fails the read the result is (false, null), as for absent
\* state; and the check leaves the stored state as it was.
C11_ReadNeverRaises ==
    [][/\ probe' = probe
       /\ probe_result' # None
       /\ BackendError(probe[1]) => probe_result' = Some(<<FALSE, 0>>)]_vars

\* the state table could not be reached although it holds a record that is
\* within the window
C11_Witness ==
    /\ probe_result = Some(<<FALSE, 0>>)
    /\ probe[1].backend = "dynamodb"
    /\ ~probe[1].up
    /\ probe[1].item = Item(CellTs(Now - 1))

\* the item update_state writes for a partition at a clock value
StateItem(key, clock) == [pipeline_state_id |-> key, last_updated |-> clock]

\* the stored last_updated of a partition: 0 when it has no record
RECURSIVE MaxLastUpdated(_)
MaxLastUpdated(items) ==
    IF items = {} THEN 0
    ELSE LET it == CHOOSE x \in items : TRUE
             rest == MaxLastUpdated(items \ {it})
         IN IF it.last_updated >= rest THEN it.last_updated ELSE rest

LastUpdatedOf(tbl, key) == MaxLastUpdated(ItemsOf(tbl, key))

\* C12: an update_state call returns to the loop that made it; when put_item
\* succeeds the partition has exactly one record, the one just written; when
\* put_item fails the partition's records are as before; the records of the
\* other partitions are as before in both cases; and no partition ever has
\* more than one record.
C12_WriteNeverRaises ==
    [][pc = "update" =>
          /\ pc' \in {"update", "finished"}
          /\ last_write' # None
          /\ LET w == last_write'[1]
             IN /\ w.key = UpdateKey(upd)
                /\ \A k \in Partitions \ {w.key} : ItemsOf(table', k) = ItemsOf(table, k)
                /\ IF w.ok
                   THEN ItemsOf(table', w.key) = {StateItem(w.key, now)}
                   ELSE ItemsOf(table', w.key) = ItemsOf(table, w.key)
          /\ \A k \in Partitions : Cardinality(ItemsOf(table', k)) <= 1]_vars

\* the second run has replaced the record the first run wrote
C12_Witness ==
    /\ runs = 2
    /\ last_write # None
    /\ last_write[1].ok
    /\ ItemsOf(table0, last_write[1].key) # {}
    /\ ItemsOf(table0, last_write[1].key) # ItemsOf(table, last_write[1].key)
    /\ ItemsOf(table, last_write[1].key) = {StateItem(last_write[1].key, now)}

\* C13: in every step, of any run, the stored last_updated of every partition
\* stays or grows; a partition that has a record keeps having one.
C13_LastUpdatedMonotonic ==
    [][\A k \in Partitions :
          /\ LastUpdatedOf(table', k) >= LastUpdatedOf(table, k)
          /\ ItemsOf(table, k) # {} => ItemsOf(table', k) # {}]_vars

\* in the second run the fetch of a partition failed and so did its state
\* write: the record of the first run is still there
C13_Witness ==
    /\ runs = 2
    /\ last_write # None
    /\ ~last_write[1].ok
    /\ fetched[last_write[1].key] = "error"
    /\ ItemsOf(table, last_write[1].key) # {}
    /\ ItemsOf(table, last_write[1].key) = ItemsOf(table0, last_write[1].key)

\* C14: the record of a partition differs from what it was when the run
\* began only if the run fetched the partition to the end, without page error.
C14_StateOnlyAfterSuccessfulFetch ==
    \A k \in Partitions :
        ItemsOf(table, k) # ItemsOf(table0, k) => fetched[k] = "fetched"

\* C15: the record of a partition the run skipped as fresh is what it was
\* when the run began.
C15_SkippedPartitionNotWritten ==
    \A k \in Partitions :
        fetched[k] = "fresh" => ItemsOf(table, k) = ItemsOf(table0, k)

\* C16: the state table is what it was when the run began as long as the run
\* is in a fetch loop, in a sink run or before its first update_state call,
\* and for good once a sink run has raised; it changes only after the three
\* sink runs have returned.
C16_WritesAfterAllSinks ==
    /\ pc \in {"run", "load", "state", "raised"} => table = table0
    /\ table # table0 => \A d \in Datasets : sinks[d] = "returned"
    /\ (\E d \in Datasets : sinks[d] = "raised") => (table = table0 /\ pc = "raised")

\* the last sink run of the second run has raised after both paged resources
\* were drained: the records of the first run are untouched
C16_Witness ==
    /\ runs = 2
    /\ pc = "raised"
    /\ sinks[datasets[Len(datasets)]] = "raised"
    /\ table # {}
    /\ table = table0
    /\ \E k \in Partitions : fetched[k] = "fetched"

\* C17: when a stale partition with a state record is fetched, the since
\* cursor is the last_updated the freshness evaluator returned.
C17_SinceIsStateLastUpdated ==
    (pc \in {"run", "load"} /\ idx > 1 /\ resource # "repositories"
        /\ is_fresh = Some(FALSE) /\ last_updated # 0 /\ stop \in {"fetched", "error"}) =>
        last_updated_timestamp = last_updated

\* the ids of the records of a sequence
Ids(recs) == {recs[i].id : i \in 1..Len(recs)}

\* the upstream answers every page request with a page
NoErrorPage(pages) == \A p \in 1..Len(pages) : pages[p].k = "ok"

\* most recently modified first
SortedDesc(recs) == \A i \in 1..(Len(recs) - 1) : recs[i].ts >= recs[i + 1].ts

\* C18: with a since cursor, no cap and an upstream that answers every page
\* request and serves its records most recently modified first, a finished
\* fetch has yielded every upstream record whose last-modified value is
\* greater than since.
C18_YieldsWholeDelta ==
    (upstream # None /\ pc = "done" /\ last_updated_timestamp # 0 /\ max_per_repo = None
        /\ NoErrorPage(upstream[1]) /\ SortedDesc(Bodies(upstream[1]))) =>
        \A i \in 1..Len(Bodies(upstream[1])) :
            Bodies(upstream[1])[i].ts > last_updated_timestamp =>
                Bodies(upstream[1])[i].id \in Ids(out)

\* C19: the second call with the same arguments against the same upstream
\* and destination makes the page requests the first call made and yields
\* records with the same ids.
C19_SameRequestsSameIds ==
    (first # None /\ pc = "done") =>
        /\ requested = first[1].requested
        /\ Ids(out) = Ids(first[1].out)
        /\ stop = first[1].stop

\* both calls requested two pages and yielded records before they stopped
C19_Witness ==
    /\ first # None
    /\ pc = "done"
    /\ Len(requested) = 2
    /\ Len(first[1].requested) = 2
    /\ Len(out) >= 1
    /\ last_updated_timestamp # 0

\* C20: the page parameters of the requests of a partition are 1, 2, 3, ...
\* in this order, the next request is for the page after the last one, and
\* against pages that hold each id once no id is yielded twice.
C20_PagesInOrderNoDuplicateId ==
    /\ \A n \in 1..Len(requested) : requested[n] = n
    /\ Len(requested) = Len(served)
    /\ pc = "page" => page = Len(requested) + 1
    /\ upstream # None => \A i, j \in 1..Len(out) : out[i].id = out[j].id => i = j

\* two pages were requested and the records of both were yielded
C20_Witness ==
    /\ upstream # None
    /\ requested = <<1, 2>>
    /\ Len(out) > PageSize
    /\ Ids(out) = 1..Len(out)

\* C21: an empty page is the last response of its partition: the while loop
\* is left with the loop back at the next partition (or past the last one),
\* and the records yielded are those of the pages before it.
C21_EmptyPageEndsPartition ==
    \A n \in 1..Len(served) :
        served[n] = RespOk(<<>>) =>
            /\ n = Len(served)
            /\ stop = "empty"
            /\ outcome[repo_name] = "empty"
            /\ pc = (IF idx > Len(repos) THEN "done" ELSE "check")
            /\ Paged => out = AsYielded(UpToCap(Bodies(Front(served))))

\* the first partition yielded a page and ended on an empty second page; the
\* loop is at the second partition
C21_Witness ==
    /\ repo_name = repos[1]
    /\ stop = "empty"
    /\ Len(served) = 2
    /\ Len(out) >= 1
    /\ pc = "check"

\* the timestamp the evaluator reads from a backend that answers does not parse
Unparsable(p) ==
    IF p.backend = "duckdb"
    THEN p.row.file = "ok" /\ FreshnessQuery(p.row).k = "bad"
    ELSE p.up /\ p.item.k = "item" /\ p.item.last_updated.k = "bad"

\* C22: a freshness check that reads a stored timestamp which does not parse
\* returns (false, null), for both backends.
C22_UnparsableIsAbsent ==
    (probe_result # None /\ Unparsable(probe[1])) => probe_result[1] = <<FALSE, 0>>

\* the embedded backend found no fetched_at and an updated_at that does not parse
C22_Witness ==
    /\ probe_result = Some(<<FALSE, 0>>)
    /\ probe[1].backend = "duckdb"
    /\ probe[1].row.file = "ok"
    /\ probe[1].row.fetched_at = CellNull
    /\ probe[1].row.updated_at = CellBad(1)

\* the skip-or-fetch decision the evaluator takes on a state record at a clock value
Decision(record, clock) == check_data_freshness(record, clock)[1]

\* C23: without force_refresh, the decision taken for the partition at hand
\* is the evaluator's decision on that partition's own state record at the
\* clock value of the run, and two partitions of the run with equal state
\* records were both skipped or both fetched, whatever was fetched before.
C23_DecisionFromOwnRecord ==
    (resource # "issues" /\ ~force_refresh) =>
        /\ repo_name # "" =>
              /\ is_fresh = Some(Decision(db[repo_name], now))
              /\ (stop = "fresh") = Decision(db[repo_name], now)
        /\ \A r1, r2 \in Repos :
              (outcome[r1] # "" /\ outcome[r2] # "" /\ db[r1] = db[r2]) =>
                  ((outcome[r1] = "fresh") = (outcome[r2] = "fresh"))

\* the first partition, stale, was fetched and yielded records; the second
\* one, fresh, was skipped all the same
C23_Witness ==
    /\ ~force_refresh
    /\ db[repos[1]] = RowStale
    /\ db[repos[2]] = RowFresh
    /\ outcome[repos[1]] \in {"cap", "empty", "boundary", "error"}
    /\ outcome[repos[2]] = "fresh"
    /\ repo_name = repos[2]

\* C27: the partitions that were checked, requested or yielded for are a
\* prefix of the list, each once and in list order; the partition at hand is
\* the last of them; a finished call has gone through them all; and every
\* fetch starts at page 1 with a count of 0.
C27_PartitionsInListOrder ==
    /\ order = SubSeq(repos, 1, Len(order))
    /\ Len(order) = idx - 1
    /\ repo_name # "" => repo_name = repos[idx - 1]
    /\ pc = "done" => order = repos
    /\ (pc = "page" /\ served = <<>>) => (page = 1 /\ fetched_count = 0)

\* the first partition ended at the cap; the fetch of the second one is
\* about to start
C27_Witness ==
    /\ outcome[repos[1]] = "cap"
    /\ max_per_repo # None
    /\ order = repos
    /\ repo_name = repos[2]
    /\ pc = "page"
    /\ served = <<>>
    /\ page = 1
    /\ fetched_count = 0

\* C28: every record yielded carries fetched_at, the clock value of its
\* yield; every record yielded by pull_requests, releases and issues
\* carries a repository_full_name that is the partition at hand.
C28_RecordsCarryMetadata ==
    \A i \in 1..Len(out) :
        /\ "fetched_at" \in DOMAIN out[i]
        /\ out[i].fetched_at = now
        /\ resource # "repositories" =>
              /\ "repository_full_name" \in DOMAIN out[i]
              /\ out[i].repository_full_name = repo_name

\* issues yielded the issue of a page of the second partition and left out
\* the pull request of that page
C28_Witness ==
    /\ resource = "issues"
    /\ repo_name = repos[2]
    /\ Len(served) = 1
    /\ served[1].k = "ok"
    /\ Len(served[1].body) = 2
    /\ "pull_request" \in DOMAIN served[1].body[1]
    /\ Len(out) = 1
    /\ out[1].repository_full_name = repos[2]

\* ---------------------------------------------------------------------
\* The mode of the process: _check_data_freshness and get_state_tracker
\* called under every value of ENVIRONMENT, then the state writes their
\* caller makes with the tracker it got.
\* ---------------------------------------------------------------------

\* the modes: the two GitHubSettings.validate accepts and one it does not
Environments == {"dev", "prod", "staging"}

\* the state table a process finds: empty, written within the freshness
\* window, written before it
ModeTables ==
    {{},
     {StateItem(k, Now - 1) : k \in Partitions},
     {StateItem(k, Now - WindowTicks - 1) : k \in Partitions}}

\* the DuckDB destination a process finds
ModeDbs == {[r \in Repos |-> row] : row \in Rows}

InitMode ==
    /\ environment \in Environments
    /\ table \in ModeTables
    /\ table0 = table
    /\ db \in ModeDbs
    /\ runs = 1
    /\ fetched = [k \in Partitions |-> ""]
    /\ sinks = [d \in Datasets |-> ""]
    /\ upd = 0
    /\ last_write = None
    /\ last_read = None
    /\ backend_ok = FALSE
    /\ resource = datasets[1]
    /\ force_refresh = FALSE
    /\ max_per_repo = None
    /\ now = Now
    /\ idx = 1
    /\ repo_name = ""
    /\ pc = "run"
    /\ is_fresh = None
    /\ last_updated = 0
    /\ last_updated_timestamp = 0
    /\ page = 0
    /\ fetched_count = 0
    /\ served = <<>>
    /\ out = <<>>
    /\ stop = ""
    /\ outcome = [r \in Repos |-> ""]
    /\ probe = None
    /\ probe_result = None
    /\ requested = <<>>
    /\ StableIdle
    /\ LidoIdle

\* one call of _check_data_freshness(table_name, repo_name): in prod the
\* tracker is asked for and, when there is one, get_item is called on it
ModeCheck ==
    /\ pc = "run"
    /\ \E d \in Datasets, constructible \in BOOLEAN, answered \in BOOLEAN :
          LET r == DEFAULT_REPOS[1]
              key == PartitionKey(d, r)
              tracker == IF environment = "prod"
                         THEN get_state_tracker(environment, constructible)
                         ELSE None
              up == tracker # None /\ answered
              res == pipeline_check_data_freshness(environment, up, GetItem(table, key),
                                                   db[r], now)
          IN /\ resource' = d
             /\ repo_name' = r
             /\ is_fresh' = Some(res[1])
             /\ last_updated' = res[2]
             /\ last_read' = IF tracker # None
                             THEN Some([key |-> key, up |-> answered])
                             ELSE last_read
             /\ backend_ok' = (backend_ok \/ up)
    /\ pc' = "state"
    /\ UNCHANGED <<force_refresh, max_per_repo, db, now, idx, last_updated_timestamp, page,
                   fetched_count, served, out, stop, outcome, probe, probe_result,
                   requested, stablevars, lidovars, calls, environment, table, table0, runs, fetched, sinks,
                   upd, last_write>>

NextMode ==
    \/ ModeCheck
    \/ GetStateTracker
    \/ UpdateState

SpecMode == InitMode /\ [][NextMode]_vars

\* the repo names a state key is made of: none (written "") or a repo
KeyRepos == {""} \cup Repos

\* C25: partitions that differ in dataset or in repo have different keys of
\* the state table, "dataset#repo", or "dataset" when there is no repo; a
\* write that succeeds leaves the record it wrote to be found by a read of
\* the same partition, which then answers fresh with the written time, and
\* leaves the records of the other partitions as they were; and a read the
\* table answers returns the last_updated stored for the partition read.
C25_NetworkedBackendRoundTrip ==
    [][/\ \A d1, d2 \in Datasets, r1, r2 \in KeyRepos :
             <<d1, r1>> # <<d2, r2>> => PartitionKey(d1, r1) # PartitionKey(d2, r2)
       /\ \A d \in Datasets :
             /\ PartitionKey(d, "") = d
             /\ \A r \in Repos : PartitionKey(d, r) = d \o "#" \o r
       /\ (pc = "update" /\ last_write' # None /\ last_write'[1].ok) =>
             LET key == last_write'[1].key
             IN /\ key = UpdateKey(upd)
                /\ GetItem(table', key) = Item(CellTs(now))
                /\ DynamoDBStateTracker_check_data_freshness(
                       TRUE, GetItem(table', key), now, FRESHNESS_WINDOW_DAYS) = <<TRUE, now>>
                /\ \A k \in Partitions \ {key} : GetItem(table', k) = GetItem(table, k)
       /\ (pc = "run" /\ last_read' # None /\ last_read'[1].up) =>
             LET key == last_read'[1].key
             IN /\ key = PartitionKey(resource, DEFAULT_REPOS[idx])
                /\ last_updated' = LastUpdatedOf(table, key)
                /\ table' = table]_vars

\* the second run read, of a partition of pull requests, the record the
\* first run wrote
C25_Witness ==
    /\ runs = 2
    /\ last_read # None
    /\ last_read[1].up
    /\ last_read[1].key = PartitionKey("pull_requests", DEFAULT_REPOS[1])
    /\ ItemsOf(table, last_read[1].key) = {StateItem(last_read[1].key, Now)}
    /\ ItemsOf(table, PartitionKey("releases", DEFAULT_REPOS[1])) = {}
    /\ last_updated = Now

C24_BackendByMode ==
    /\ is_fresh # None =>
          IF environment = "prod"
          THEN <<is_fresh[1], last_updated>> =
                   DynamoDBStateTracker_check_data_freshness(
                       last_read # None /\ last_read[1].up,
                       GetItem(table0, PartitionKey(resource, repo_name)),
                       now, FRESHNESS_WINDOW_DAYS)
          ELSE <<is_fresh[1], last_updated>> = check_data_freshness(db[repo_name], now)
    /\ environment # "prod" =>
          /\ last_read = None
          /\ last_write = None
          /\ ~backend_ok
          /\ table = table0
          /\ pc # "update"

\* dev, at the end: the state table holds a record within the window for
\* the partition, the DuckDB destination a stale row; the check answered
\* stale and the state table was neither read nor written
C24_Witness ==
    /\ environment = "dev"
    /\ pc = "finished"
    /\ is_fresh = Some(FALSE)
    /\ db[repo_name] = RowStale
    /\ ItemsOf(table, PartitionKey(resource, repo_name)) =
           {StateItem(PartitionKey(resource, repo_name), Now - 1)}
    /\ last_read = None
    /\ last_write = None
    /\ table = table0

\* ---------------------------------------------------------------------
\* The Lido source: funds and the two proposals pagers, the one of
\* connectors/lido.py called on its own and the one of load/lido run by
\* run_prod_pipeline after funds.
\* ---------------------------------------------------------------------

\* per_page of a proposals request (50 in the source)
PerPage == 2

\* the largest max_pages tried
MaxPages == 2

\* the pages the upstream holds: one more than the largest max_pages
LidoPages == MaxPages + 1

MaxPagesValues == {None} \cup {Some(m) : m \in -1..MaxPages}

\* the n proposals of page p
LidoRows(p, n) == [j \in 1..n |-> [id |-> (p - 1) * PerPage + j]]

\* the page a proposal is of
LidoPageOf(id) == ((id - 1) \div PerPage) + 1

\* a page is empty, short or full
RowLens == {0, 1, PerPage}

\* _get_json raised
LidoError == [k |-> "error"]

\* a payload that is a list
PayloadList(rows) == [k |-> "list", data |-> rows]

\* a payload { data: [...], links: { next: ... } }; next tells whether the
\* link is there
PayloadDict(rows, next) == [k |-> "dict", data |-> rows, next |-> next]

\* what the upstream may answer to the request of page p
LidoResponses(p) ==
    {LidoError} \cup
    (IF p > LidoPages
     THEN {PayloadList(<<>>), PayloadDict(<<>>, FALSE)}
     ELSE {PayloadList(LidoRows(p, n)) : n \in RowLens} \cup
          {PayloadDict(LidoRows(p, n), nx) : n \in RowLens, nx \in BOOLEAN})

\* what _get_json returns or raises for page p of the proposals: anything
\* the upstream may answer, or page p of the fixed upstream (a payload
\* without rows past its last page)
LidoAnswers(up, p) ==
    IF up = None THEN LidoResponses(p)
    ELSE {IF p <= Len(up[1]) THEN up[1][p] ELSE PayloadDict(<<>>, FALSE)}

\* what the upstream may answer to the request of the funds
FundsResponses ==
    {LidoError} \cup
    {PayloadList([j \in 1..n |-> [fund |-> j]]) : n \in 0..1} \cup
    {PayloadDict([j \in 1..n |-> [fund |-> j]], FALSE) : n \in 0..1}

\* variant: a max_pages of 0 taken for no limit
MaxPagesReachedTruthy(mp, p) == mp # None /\ mp[1] # 0 /\ p > mp[1]

\* max_pages is not None and page > max_pages
MaxPagesReached(mp, p) == mp # None /\ p > mp[1]

\* rows = payload.get("data", []) if isinstance(payload, dict) else payload
RowsOf(payload) == payload.data

\* whether the pager goes on to the next page after the rows of a payload:
\* the connector stops without a next link on a page that is not full, the
\* pipeline stops on a dict without a next link
GoesOn(pgr, payload) ==
    IF pgr = "connector"
    THEN (payload.k = "dict" /\ payload.next) \/ Len(RowsOf(payload)) >= PerPage
    ELSE ~(payload.k = "dict" /\ ~payload.next)

\* the rows as yielded: the pipeline sets ingested_at, the connector yields
\* them as they came
LidoYield(pgr, rows, clock) ==
    [i \in 1..Len(rows) |->
        IF pgr = "pipeline" THEN [id |-> rows[i].id, ingested_at |-> clock] ELSE rows[i]]

\* variant: paging taken up where the run before ended
proposals_first_page_resumed(previous) == IF previous = 0 THEN 1 ELSE previous

\* page = 1 at the start of proposals
proposals_first_page(previous) == 1

\* where a call goes when proposals has returned: the connector's caller
\* has its list, run_prod_pipeline loads the records to the sink
AfterProposals(pgr) == IF pgr = "pipeline" THEN "load" ELSE "finished"

InitLido ==
    /\ pager \in {"connector", "pipeline"}
    /\ calls = <<>>
    /\ max_pages \in MaxPagesValues
    /\ total_yielded = 0
    /\ environment = "prod"
    /\ table = {StateItem(k, Now - 1) : k \in Partitions}
    /\ table0 = table
    /\ runs = 0
    /\ fetched = [k \in Partitions |-> ""]
    /\ sinks = [d \in Datasets |-> ""]
    /\ upd = 0
    /\ last_write = None
    /\ last_read = None
    /\ backend_ok = FALSE
    /\ resource = "proposals"
    /\ force_refresh = FALSE
    /\ max_per_repo = None
    /\ db = [r \in Repos |-> RowFresh]
    /\ now = Now
    /\ idx = 1
    /\ repo_name = ""
    /\ pc = "start"
    /\ is_fresh = None
    /\ last_updated = 0
    /\ last_updated_timestamp = 0
    /\ page = 0
    /\ fetched_count = 0
    /\ served = <<>>
    /\ out = <<>>
    /\ stop = ""
    /\ outcome = [r \in Repos |-> ""]
    /\ probe = None
    /\ probe_result = None
    /\ requested = <<>>
    /\ StableIdle

\* a call starts: proposals of the connector, or run_prod_pipeline of
\* load/lido, which runs funds first
LidoStart ==
    /\ pc \in {"start", "finished", "raised"}
    /\ runs < MaxRuns
    /\ runs' = runs + 1
    /\ served' = <<>>
    /\ out' = <<>>
    /\ requested' = <<>>
    /\ stop' = ""
    /\ IF pager = "pipeline"
       THEN /\ pc' = "funds"
            /\ UNCHANGED <<page, total_yielded>>
       ELSE /\ pc' = "proposals"
            /\ page' = proposals_first_page(page)
            /\ total_yielded' = 0
    /\ UNCHANGED <<resource, force_refresh, max_per_repo, db, now, idx, repo_name, is_fresh,
                   last_updated, last_updated_timestamp, fetched_count, outcome, probe,
                   probe_result, stablevars, environment, table, table0, fetched, sinks,
                   upd, last_write, last_read, backend_ok, max_pages, pager, calls>>

\* pipeline.run(funds()): one request, every fund yielded with ingested_at
\* and loaded; a request or a load that raises ends the run
LidoFunds ==
    /\ pc = "funds"
    /\ \E resp \in FundsResponses, ok \in BOOLEAN :
          /\ requested' = Append(requested, [what |-> "funds", page |-> 0])
          /\ IF resp = LidoError
             THEN /\ pc' = "raised"
                  /\ UNCHANGED <<out, page, total_yielded>>
             ELSE /\ out' = [i \in 1..Len(RowsOf(resp)) |->
                                [fund |-> RowsOf(resp)[i].fund, ingested_at |-> now]]
                  /\ IF ok
                     THEN /\ pc' = "proposals"
                          /\ page' = proposals_first_page(page)
                          /\ total_yielded' = 0
                     ELSE /\ pc' = "raised"
                          /\ UNCHANGED <<page, total_yielded>>
    /\ UNCHANGED <<resource, force_refresh, max_per_repo, db, now, idx, repo_name, is_fresh,
                   last_updated, last_updated_timestamp, fetched_count, served, stop,
                   outcome, probe, probe_result, stablevars, prodvars, max_pages, pager, calls>>

\* the loop of proposals at the max_pages check, the limit reached
LidoMaxPagesStop ==
    /\ pc = "proposals"
    /\ MaxPagesReached(max_pages, page)
    /\ stop' = "max_pages"
    /\ pc' = AfterProposals(pager)
    /\ UNCHANGED <<resource, force_refresh, max_per_repo, db, now, idx, repo_name, is_fresh,
                   last_updated, last_updated_timestamp, page, fetched_count, served, out,
                   outcome, probe, probe_result, requested, stablevars, prodvars, lidovars, calls>>

\* one iteration of the loop of proposals past the max_pages check: the
\* request, the rows yielded, the decision to go on
LidoPageRequest ==
    /\ pc = "proposals"
    /\ ~MaxPagesReached(max_pages, page)
    /\ \E resp \in LidoAnswers(upstream, page) :
          /\ requested' = Append(requested, [what |-> "proposals", page |-> page])
          /\ served' = Append(served, resp)
          /\ IF resp = LidoError
             THEN /\ stop' = "error"
                  /\ pc' = AfterProposals(pager)
                  /\ UNCHANGED <<out, page, total_yielded>>
             ELSE IF RowsOf(resp) = <<>>
             THEN /\ stop' = "empty"
                  /\ pc' = AfterProposals(pager)
                  /\ UNCHANGED <<out, page, total_yielded>>
             ELSE /\ out' = out \o LidoYield(pager, RowsOf(resp), now)
                  /\ total_yielded' = total_yielded + Len(RowsOf(resp))
                  /\ IF GoesOn(pager, resp)
                     THEN /\ page' = page + 1
                          /\ UNCHANGED <<stop, pc>>
                     ELSE /\ stop' = "last"
                          /\ pc' = AfterProposals(pager)
                          /\ page' = page
    /\ UNCHANGED <<resource, force_refresh, max_per_repo, db, now, idx, repo_name, is_fresh,
                   last_updated, last_updated_timestamp, fetched_count, outcome, probe,
                   probe_result, stablevars, prodvars, max_pages, pager, calls>>

\* pipeline.run(proposals(...)) loads what was yielded; run_prod_pipeline
\* ends after it, with no state read or written
LidoLoad ==
    /\ pc = "load"
    /\ \E ok \in BOOLEAN : pc' = IF ok THEN "finished" ELSE "raised"
    /\ UNCHANGED <<resource, force_refresh, max_per_repo, db, now, idx, repo_name, is_fresh,
                   last_updated, last_updated_timestamp, page, fetched_count, served, out,
                   stop, outcome, probe, probe_result, requested, stablevars, prodvars,
                   lidovars, calls>>

NextLido ==
    \/ LidoStart
    \/ LidoFunds
    \/ LidoMaxPagesStop
    \/ LidoPageRequest
    \/ LidoLoad

SpecLido == InitLido /\ [][NextLido]_vars

\* the proposals page requests of the call, in order
ProposalRequests == SelectSeq(requested, LAMBDA q : q.what = "proposals")

\* the proposals the call has yielded, in order
ProposalsOut == SelectSeq(out, LAMBDA r : "id" \in DOMAIN r)

\* the ids of the rows of the payloads served, page after page
RECURSIVE ServedIds(_)
ServedIds(srv) ==
    IF srv = <<>> THEN <<>>
    ELSE (IF Head(srv) = LidoError THEN <<>>
          ELSE [i \in 1..Len(RowsOf(Head(srv))) |-> RowsOf(Head(srv))[i].id])
         \o ServedIds(Tail(srv))

\* C29: in every run of the Lido source, whatever the state table and the
\* DuckDB destination hold and whatever an earlier run did, no freshness
\* check is made and no since cursor is taken, the state table is neither
\* read nor written, the proposals pages requested are 1, 2, 3, ... from
\* page 1 on, and a run of the pipeline requests the funds first and gets
\* to the proposals once the funds are loaded.
C29_LidoAlwaysFullDump ==
    /\ is_fresh = None
    /\ last_updated = 0
    /\ last_updated_timestamp = 0
    /\ last_read = None
    /\ last_write = None
    /\ table = table0
    /\ \A i \in 1..Len(ProposalRequests) : ProposalRequests[i].page = i
    /\ pc = "proposals" => page = Len(ProposalRequests) + 1
    /\ (pager = "pipeline" /\ pc \in {"proposals", "load", "finished"}) =>
          /\ requested # <<>>
          /\ requested[1].what = "funds"
          /\ Len(requested) = Len(ProposalRequests) + 1
    /\ (pc \in {"load", "finished"} /\ ~MaxPagesReached(max_pages, 1)) =>
          ProposalRequests # <<>>

\* the second run of the pipeline, with a state table whose records are
\* all within the freshness window, has requested the funds and the
\* proposals from page 1 to the last page and has loaded them
C29_Witness ==
    /\ pager = "pipeline"
    /\ runs = 2
    /\ pc = "finished"
    /\ max_pages = None
    /\ \A k \in Partitions : ItemsOf(table, k) = {StateItem(k, Now - 1)}
    /\ Len(ProposalRequests) = LidoPages
    /\ stop = "last"
    /\ Len(ProposalsOut) = LidoPages * PerPage

\* C30: with max_pages = M the pager makes at most M page requests, of
\* pages among 1..M, and yields only proposals of those pages; with M <= 0
\* it makes no request, yields nothing and returns at the max_pages check;
\* a request that raises is the last one of the call, which returns with
\* the proposals of the pages before it; and what is yielded is always what
\* the pages served held, in their order.
C30_MaxPagesBoundsPaging ==
    /\ [i \in 1..Len(ProposalsOut) |-> ProposalsOut[i].id] = ServedIds(served)
    /\ Len(ProposalsOut) = (IF served = <<>> THEN 0 ELSE total_yielded)
    /\ max_pages # None =>
          /\ Len(ProposalRequests) <= (IF max_pages[1] > 0 THEN max_pages[1] ELSE 0)
          /\ \A i \in 1..Len(ProposalRequests) : ProposalRequests[i].page \in 1..max_pages[1]
          /\ \A i \in 1..Len(ProposalsOut) : LidoPageOf(ProposalsOut[i].id) \in 1..max_pages[1]
    /\ (max_pages # None /\ max_pages[1] <= 0) =>
          /\ ProposalRequests = <<>>
          /\ ProposalsOut = <<>>
          /\ stop \in {"", "max_pages"}
          /\ pager = "connector" => pc \in {"start", "proposals", "finished"}
    /\ \A n \in 1..Len(served) :
          served[n] = LidoError =>
              /\ n = Len(served)
              /\ stop = "error"
              /\ pc \in {AfterProposals(pager), "finished", "raised"}
              /\ pager = "connector" => pc = "finished"

\* the connector's pager with the largest max_pages: the last page allowed
\* came full and with a next link, and the call returned at the max_pages
\* check with the proposals of those pages
C30_Witness ==
    /\ pager = "connector"
    /\ max_pages = Some(MaxPages)
    /\ pc = "finished"
    /\ stop = "max_pages"
    /\ Len(ProposalRequests) = MaxPages
    /\ served[MaxPages] = PayloadDict(LidoRows(MaxPages, PerPage), TRUE)
    /\ Len(out) = MaxPages * PerPage

\* the dataset types whose fetch stops at the boundary of the cursor
AppliesBoundary == {"pull_requests", "releases"}

\* C31: in an incremental fetch of a dataset type that applies boundary
\* detection, every page request of the partition, the first one included,
\* carries the since parameter, and its value is the cursor.
C31_SinceOnEveryRequest ==
    (resource \in AppliesBoundary /\ last_updated_timestamp # 0) =>
        /\ Len(since_sent) = Len(requested)
        /\ \A n \in 1..Len(since_sent) : since_sent[n] = Some(last_updated_timestamp)

\* the state one query result stands for: none without a value or with one
\* that does not parse, else its instant and whether it is within the window
DecidedBy(cell, clock) ==
    IF ~HasValue(cell) \/ cell.k = "bad" THEN <<FALSE, 0>>
    ELSE <<DuckDBIsFresh(cell.t, clock), cell.t>>

\* a probe of the DuckDB destination, its file readable, has been evaluated
DuckDBEvaluated ==
    /\ probe # None
    /\ probe_result # None
    /\ probe[1].backend = "duckdb"
    /\ probe[1].row.file = "ok"

\* C32 as stated: a fetched_at query that did not raise decides the state,
\* whatever updated_at holds.
C32_FetchedAtDecides ==
    (DuckDBEvaluated /\ probe[1].row.fetched_at.k # "error") =>
        probe_result[1] = DecidedBy(probe[1].row.fetched_at, now)

\* C32: fetched_at is queried first and decides when it returns a value;
\* updated_at is queried when the fetched_at query raised and also when it
\* returned no value, and then decides when it returns a value; with no
\* value from either the state is absent.
C32_FirstValueDecides ==
    DuckDBEvaluated =>
        LET row == probe[1].row
        IN /\ HasValue(row.fetched_at) => probe_result[1] = DecidedBy(row.fetched_at, now)
           /\ (~HasValue(row.fetched_at) /\ HasValue(row.updated_at)) =>
                 probe_result[1] = DecidedBy(row.updated_at, now)
           /\ (~HasValue(row.fetched_at) /\ ~HasValue(row.updated_at)) =>
                 probe_result[1] = <<FALSE, 0>>

\* the fetched_at query returned no value without raising, updated_at holds
\* an instant within the window: the partition is fresh
C32_Witness ==
    /\ DuckDBEvaluated
    /\ probe[1].row.fetched_at = CellNull
    /\ probe[1].row.updated_at = CellTs(Now - 1)
    /\ now = Now
    /\ probe_result[1] = <<TRUE, Now - 1>>

\* ---------------------------------------------------------------------
\* The development cycle: a call of a resource run by the DuckDB pipeline,
\* its records loaded into the DuckDB destination, then the next call.
\* The first partition is fresh, so what the call yields is the output of
\* the second one.
\* ---------------------------------------------------------------------

\* the larger of two instants
Later(a, b) == IF a >= b THEN a ELSE b

\* the newest last-modified time among records
RECURSIVE NewestTs(_)
NewestTs(recs) ==
    IF recs = <<>> THEN 0 ELSE Later(Head(recs).ts, NewestTs(Tail(recs)))

\* the partition a loaded record is stored for: its repository_full_name,
\* for a repository the repository itself
StoredFor(rec, repo) ==
    IF "repository_full_name" \in DOMAIN rec THEN rec.repository_full_name ELSE repo

\* what the freshness queries find for a partition once the records of a
\* call are merged into the destination: MAX(fetched_at) and MAX(updated_at)
\* over the rows it had and the rows loaded; nothing loaded, nothing changed
LoadedRow(row, recs, clock) ==
    IF recs = <<>> THEN row
    ELSE [file |-> "ok",
          fetched_at |-> CellTs(clock),
          updated_at |-> CellTs(Later(get_last_updated_timestamp(row), NewestTs(recs)))]

InitDev ==
    /\ resource \in {"repositories", "pull_requests"}
    /\ force_refresh = FALSE
    /\ max_per_repo \in (IF resource = "repositories" THEN {None} ELSE Caps)
    /\ db \in {[r \in Repos |-> IF r = repos[1] THEN RowFresh ELSE row] :
                  row \in {RowAbsent, RowStale}}
    /\ now = Now
    /\ idx = 1
    /\ repo_name = ""
    /\ pc = "check"
    /\ is_fresh = None
    /\ last_updated = 0
    /\ last_updated_timestamp = 0
    /\ page = 0
    /\ fetched_count = 0
    /\ served = <<>>
    /\ out = <<>>
    /\ stop = ""
    /\ outcome = [r \in Repos |-> ""]
    /\ probe = None
    /\ probe_result = None
    /\ requested = <<>>
    /\ StableIdle
    /\ ProdIdle
    /\ LidoIdle
    /\ environment = "dev"

\* local_pipeline.run(resource): the call has returned and what it yielded
\* is merged into the DuckDB destination, or the load raises
DevLoad ==
    /\ pc = "done"
    /\ first = None
    /\ \E ok \in BOOLEAN :
          IF ok
          THEN /\ pc' = "loaded"
               /\ db' = [r \in Repos |->
                            LoadedRow(db[r],
                                      SelectSeq(out, LAMBDA rec : StoredFor(rec, repo_name) = r),
                                      now)]
          ELSE /\ pc' = "raised"
               /\ db' = db
    /\ UNCHANGED <<resource, force_refresh, max_per_repo, now, idx, repo_name, is_fresh,
                   last_updated, last_updated_timestamp, page, fetched_count, served, out,
                   stop, outcome, probe, probe_result, requested, stablevars, prodvars,
                   lidovars, calls>>

\* the next run of the pipeline, within the freshness window of the first
DevNextRun ==
    /\ pc = "loaded"
    /\ first = None
    /\ first' = Some([requested |-> requested, out |-> out, stop |-> stop])
    /\ now' = now + 1
    /\ order' = <<>>
    /\ idx' = 1
    /\ repo_name' = ""
    /\ pc' = "check"
    /\ is_fresh' = None
    /\ last_updated' = 0
    /\ last_updated_timestamp' = 0
    /\ served' = <<>>
    /\ out' = <<>>
    /\ requested' = <<>>
    /\ since_sent' = <<>>
    /\ stop' = ""
    /\ outcome' = [r \in Repos |-> ""]
    /\ UNCHANGED <<resource, force_refresh, max_per_repo, db, page, fetched_count,
                   probe, probe_result, upstream, prodvars, lidovars, calls>>

NextDev ==
    \/ CheckPartition
    \/ FetchRepo
    \/ CapStop
    \/ PageError
    \/ PageEmpty
    \/ PageBoundary
    \/ PageYield
    \/ DevLoad
    \/ DevNextRun

SpecDev == InitDev /\ [][NextDev]_vars

\* the first run has fetched the second partition, which has rows in the
\* destination, to an end other than an error, its output is loaded, and
\* the next run, within the window, has checked that partition
CheckedAfterCycle ==
    /\ first # None
    /\ db[repos[2]].file = "ok"
    /\ first[1].stop \in {"fetched", "empty", "boundary", "cap"}
    /\ repo_name = repos[2]
    /\ is_fresh # None

\* C33: after a fetch cycle of a stale partition that completed without
\* error and whose output was loaded, the next freshness check of the
\* partition within the window answers fresh, also when nothing was yielded.
C33_FreshAfterCycle ==
    CheckedAfterCycle => is_fresh = Some(TRUE)

-----------------------------------------------------------------------------
(* pull_requests(repos=[r]) called once per partition, the calls iterated in
   turns page by page, then the same partitions fetched by one call in order *)

\* upstreams of the calls iterated in turns: at most one full page and one record more
TurnUpstreams ==
    {StablePages(tss, err) : tss \in SeqsUpTo(StableTs, PageSize + 1), err \in 0..2}

\* page = 1, fetched_count = 0 and nothing requested yet: the locals of a
\* call that has not run; turns holds, for each page request of the call, its
\* position among the page requests of all calls; written and written_at
\* record the state write made for the partition
NewCall ==
    [page |-> StartPage(0), fetched_count |-> 0, cursor |-> 0, requested |-> <<>>,
     out |-> <<>>, stop |-> "", started |-> FALSE, written |-> "", written_at |-> 0,
     turns |-> <<>>]

\* variant: the locals kept in one place for all calls
FrameShared(cs, r) == cs[repos[1]]

\* the locals of the generator that fetches partition r
Frame(cs, r) == cs[r]

\* number of page requests the calls have made so far
RECURSIVE TotalRequests(_, _)
TotalRequests(cs, rs) ==
    IF rs = {} THEN 0
    ELSE LET r == CHOOSE x \in rs : TRUE
         IN Len(cs[r].requested) + TotalRequests(cs, rs \ {r})

\* the generator up to its first page: freshness check, then the cursor
CallStart(f, row, clock) ==
    LET res == check_data_freshness(row, clock)
    IN IF SkipPartition(FALSE, res[1])
       THEN [f EXCEPT !.started = TRUE, !.stop = "fresh"]
       ELSE [f EXCEPT !.started = TRUE, !.cursor = SinceCursor(FALSE, row),
                      !.page = StartPage(f.page), !.fetched_count = 0]

\* one iteration of while True on the locals f: the cap test, the request of
\* page f.page, the breaks, the yields and page += 1
CallPage(f, up, cap, repo, clock, turn) ==
    IF CapReached(cap, f.fetched_count) THEN [f EXCEPT !.stop = "cap"]
    ELSE LET resp == CHOOSE a \in Answers(up, <<>>, f.page) : TRUE
             asked == [f EXCEPT !.requested = Append(f.requested, f.page),
                                !.turns = Append(f.turns, turn)]
         IN IF resp.k = "error" THEN [asked EXCEPT !.stop = "error"]
            ELSE IF resp.body = <<>> THEN [asked EXCEPT !.stop = "empty"]
            ELSE IF ReachedOldData(resp.body, f.cursor) THEN [asked EXCEPT !.stop = "boundary"]
            ELSE LET got == YieldLoop(resp.body, 1, f.fetched_count, cap)
                 IN [asked EXCEPT !.out = f.out \o MapInject(got, repo, clock),
                                  !.fetched_count = f.fetched_count + Len(got),
                                  !.page = NextPage(f.page)]

\* the state items of the partitions before the run
OldItems == {StateItem(PartitionKey("pull_requests", r), Now - 1) : r \in Repos}

InitTurns ==
    /\ resource = "pull_requests"
    /\ force_refresh = FALSE
    /\ max_per_repo \in Caps
    /\ db \in [Repos -> Rows]
    /\ upstream \in {Some(u) : u \in TurnUpstreams}
    /\ calls = [r \in Repos |-> NewCall]
    /\ first = None
    /\ order = <<>>
    /\ since_sent = <<>>
    /\ now = Now
    /\ idx = 1
    /\ repo_name = ""
    /\ pc = "check"
    /\ is_fresh = None
    /\ last_updated = 0
    /\ last_updated_timestamp = 0
    /\ page = 0
    /\ fetched_count = 0
    /\ served = <<>>
    /\ out = <<>>
    /\ stop = ""
    /\ outcome = [r \in Repos |-> ""]
    /\ probe = None
    /\ probe_result = None
    /\ requested = <<>>
    /\ environment = "prod"
    /\ table = OldItems
    /\ table0 = table
    /\ runs = 0
    /\ fetched = [k \in Partitions |-> ""]
    /\ sinks = [d \in Datasets |-> ""]
    /\ upd = 0
    /\ last_write = None
    /\ last_read = None
    /\ backend_ok = TRUE
    /\ max_pages = None
    /\ pager = ""
    /\ total_yielded = 0

\* the consumer takes the next step of the call for partition r: up to its
\* first page when it has not run, one page otherwise
TurnStep(r) ==
    /\ calls[r].stop = ""
    /\ calls' = [calls EXCEPT ![r] =
                    IF ~Frame(calls, r).started
                    THEN CallStart(Frame(calls, r), StateRecord(db, r), now)
                    ELSE CallPage(Frame(calls, r), upstream, max_per_repo, r, now,
                                  TotalRequests(calls, Repos) + 1)]
    /\ UNCHANGED <<resource, force_refresh, max_per_repo, db, now, idx, repo_name, pc,
                   is_fresh, last_updated, last_updated_timestamp, page, fetched_count,
                   served, out, stop, outcome, probe, probe_result, requested,
                   stablevars, prodvars, lidovars>>

\* update_state for partition r once its call is over, at any moment of the
\* other call; the clock of the write is later than that of the writes before it
TurnWrite(r) ==
    /\ calls[r].stop \notin {"", "fresh"}
    /\ calls[r].written = ""
    /\ \E ok \in BOOLEAN :
          /\ table' = update_state(table, PartitionKey(resource, r), now + upd + 1, ok)
          /\ calls' = [calls EXCEPT ![r].written = IF ok THEN "ok" ELSE "failed",
                                    ![r].written_at = IF ok THEN now + upd + 1 ELSE 0]
          /\ last_write' = IF ok THEN Some(now + upd + 1) ELSE last_write
    /\ upd' = upd + 1
    /\ UNCHANGED <<resource, force_refresh, max_per_repo, db, now, idx, repo_name, pc,
                   is_fresh, last_updated, last_updated_timestamp, page, fetched_count,
                   served, out, stop, outcome, probe, probe_result, requested,
                   stablevars, lidovars, environment, table0, runs, fetched, sinks,
                   last_read, backend_ok>>

\* all calls iterated in turns are over
TurnsOver == \A r \in Repos : calls[r].stop # ""

NextTurns ==
    \/ \E r \in Repos : TurnStep(r)
    \/ \E r \in Repos : TurnWrite(r)
    \/ (TurnsOver /\ CheckPartition)
    \/ (TurnsOver /\ CapStop)
    \/ (TurnsOver /\ PageError)
    \/ (TurnsOver /\ PageEmpty)
    \/ (TurnsOver /\ PageBoundary)
    \/ (TurnsOver /\ PageYield)

SpecTurns == InitTurns /\ [][NextTurns]_vars

\* the partition whose fetch the call in order has just ended
EndedOn(r) == Ended /\ repo_name = r

\* the state items of partition r are those of its own write, or the old
\* ones when it has made none
OwnItems(r) ==
    ItemsOf(table, PartitionKey("pull_requests", r)) =
        IF calls[r].written = "ok"
        THEN {StateItem(PartitionKey("pull_requests", r), calls[r].written_at)}
        ELSE ItemsOf(table0, PartitionKey("pull_requests", r))

\* C34: fetched in turns page by page, each partition makes the page
\* requests, yields the records and stops the way it does when the
\* partitions are fetched one after the other, and the state items of a
\* partition are changed by its own write alone.
C34_TurnsAsInOrder ==
    /\ \A r \in Repos :
          EndedOn(r) => /\ calls[r].requested = requested
                        /\ calls[r].out = out
                        /\ calls[r].stop = stop
    /\ \A r \in Repos : OwnItems(r)

\* both calls asked for two pages or more, in alternation, both wrote their
\* state, and the call in order has ended the second partition with records
C34_Witness ==
    /\ \A r \in Repos : Len(calls[r].turns) >= 2 /\ calls[r].written = "ok"
    /\ calls[repos[1]].turns[1] < calls[repos[2]].turns[1]
    /\ calls[repos[2]].turns[1] < calls[repos[1]].turns[2]
    /\ calls[repos[1]].turns[2] < calls[repos[2]].turns[2]
    /\ EndedOn(repos[2])
    /\ Len(out) >= 2
    /\ calls[repos[1]].out # calls[repos[2]].out

-----------------------------------------------------------------------------
(* issues against an upstream that answers the same from some page on *)

\* the issues endpoint's answers to one page request: an error, an empty
\* list, a page of issues and pull requests
IssueAnswers == {RespError, RespOk(<<>>)} \cup {RespOk(p) : p \in IssuePages}

\* upstreams of issues: the answer to page 1 and the answer to every later page
IssueUpstreams == {<<a, b>> : a \in IssueAnswers, b \in IssueAnswers}

\* the answer of upstream up to page p: its own page p, its last one for
\* every page past it
FixedIssuePage(up, p) == up[1][IF p <= Len(up[1]) THEN p ELSE Len(up[1])]

\* page numbers told apart: the upstream answers the same from its last
\* page on, so the loop does the same on every page past it
MaxIssuePage == MaxCap + 2

\* the page counter, its values past MaxIssuePage + 1 taken back to MaxIssuePage
FoldPage(p) == IF p > MaxIssuePage + 1 THEN MaxIssuePage ELSE p

\* the log of a call, kept for its first MaxIssuePage requests
Kept(log, x) == IF Len(log) < MaxIssuePage THEN Append(log, x) ELSE log

InitIssues ==
    /\ resource = "issues"
    /\ force_refresh = FALSE
    /\ max_per_repo \in Caps \ {None}
    /\ db \in {[r \in Repos |-> row] : row \in {RowAbsent, RowFresh}}
    /\ upstream \in {Some(u) : u \in IssueUpstreams}
    /\ first = None
    /\ order = <<>>
    /\ since_sent = <<>>
    /\ now = Now
    /\ idx = 1
    /\ repo_name = ""
    /\ pc = "check"
    /\ is_fresh = None
    /\ last_updated = 0
    /\ last_updated_timestamp = 0
    /\ page = 0
    /\ fetched_count = 0
    /\ served = <<>>
    /\ out = <<>>
    /\ stop = ""
    /\ outcome = [r \in Repos |-> ""]
    /\ probe = None
    /\ probe_result = None
    /\ requested = <<>>
    /\ ProdIdle
    /\ LidoIdle
    /\ environment = "dev"

\* issues: one iteration of while True past the cap test, against the fixed
\* upstream: the request raises, or returns nothing, or returns a page whose
\* issues are yielded up to the cap, then page += 1
IssuesPageFixed ==
    /\ pc = "page"
    /\ resource = "issues"
    /\ upstream # None
    /\ ~CapReached(max_per_repo, fetched_count)
    /\ LET resp == FixedIssuePage(upstream, page)
       IN /\ served' = Kept(served, resp)
          /\ IF resp.k = "error"
             THEN /\ stop' = "error"
                  /\ outcome' = [outcome EXCEPT ![repo_name] = "error"]
                  /\ pc' = AfterBreak
                  /\ UNCHANGED <<out, fetched_count, page>>
             ELSE IF resp.body = <<>>
             THEN /\ stop' = "empty"
                  /\ outcome' = [outcome EXCEPT ![repo_name] = "empty"]
                  /\ pc' = AfterBreak
                  /\ UNCHANGED <<out, fetched_count, page>>
             ELSE LET got == IssuesYieldLoop(resp.body, 1, fetched_count, max_per_repo)
                  IN /\ out' = out \o MapInject(got, repo_name, now)
                     /\ fetched_count' = fetched_count + Len(got)
                     /\ page' = FoldPage(NextPage(page))
                     /\ UNCHANGED <<stop, outcome, pc>>
    /\ requested' = Kept(requested, page)
    /\ since_sent' = Kept(since_sent, SinceParam(resource, last_updated_timestamp))
    /\ order' = Logged(order, repo_name)
    /\ UNCHANGED <<resource, force_refresh, max_per_repo, db, now, idx, repo_name,
                   is_fresh, last_updated, last_updated_timestamp,
                   probe, probe_result, upstream, first, prodvars, lidovars, calls>>

NextIssues ==
    \/ IssuesStart
    \/ CapStop
    \/ IssuesPageFixed

\* the call is resumed as long as it has a next step
SpecIssues == InitIssues /\ [][NextIssues]_vars /\ WF_vars(NextIssues)

\* C35: issues with max_per_repo = N >= 1 never yields a record with a
\* pull_request key, yields at most N records per partition, and comes to
\* its end whatever the upstream answers.
C35_CappedIssuesEnd ==
    /\ [](Truthy(max_per_repo) =>
            /\ \A i \in 1..Len(out) : "pull_request" \notin DOMAIN out[i]
            /\ Len(out) <= max_per_repo[1])
    /\ (Truthy(max_per_repo) => <>(pc = "done"))

-----------------------------------------------------------------------------
(* pull_requests with a cap of zero or below, and the same call made with null *)

\* values of max_per_repo: null, the caps, zero, a negative number
CapValues == Caps \cup {Some(0), Some(-1)}

InitCaps ==
    /\ resource = "pull_requests"
    /\ force_refresh = FALSE
    /\ max_per_repo \in CapValues
    /\ db \in [Repos -> {RowAbsent, RowStale}]
    /\ upstream \in {Some(u) : u \in Upstreams}
    /\ first = None
    /\ order = <<>>
    /\ since_sent = <<>>
    /\ now = Now
    /\ idx = 1
    /\ repo_name = ""
    /\ pc = "check"
    /\ is_fresh = None
    /\ last_updated = 0
    /\ last_updated_timestamp = 0
    /\ page = 0
    /\ fetched_count = 0
    /\ served = <<>>
    /\ out = <<>>
    /\ stop = ""
    /\ outcome = [r \in Repos |-> ""]
    /\ probe = None
    /\ probe_result = None
    /\ requested = <<>>
    /\ ProdIdle
    /\ LidoIdle
    /\ environment = "dev"

\* the call made with max_per_repo = 0 has returned; the same call is made
\* with max_per_repo = None, the destination and the upstream being what
\* they were
RecallWithNull ==
    /\ pc = "done"
    /\ max_per_repo = Some(0)
    /\ first = None
    /\ first' = Some([requested |-> requested, out |-> out, stop |-> stop,
                      outcome |-> outcome, max_per_repo |-> max_per_repo])
    /\ max_per_repo' = None
    /\ order' = <<>>
    /\ idx' = 1
    /\ repo_name' = ""
    /\ pc' = "check"
    /\ is_fresh' = None
    /\ last_updated' = 0
    /\ last_updated_timestamp' = 0
    /\ served' = <<>>
    /\ out' = <<>>
    /\ requested' = <<>>
    /\ since_sent' = <<>>
    /\ stop' = ""
    /\ outcome' = [r \in Repos |-> ""]
    /\ UNCHANGED <<resource, force_refresh, db, now, page, fetched_count,
                   probe, probe_result, upstream, prodvars, lidovars, calls>>

NextCaps ==
    \/ CheckPartition
    \/ CapStop
    \/ PageError
    \/ PageEmpty
    \/ PageBoundary
    \/ PageYield
    \/ RecallWithNull

SpecCaps == InitCaps /\ [][NextCaps]_vars

\* the call with max_per_repo = 0 and the call with None that followed it
\* have both returned
BothReturned == first # None /\ pc = "done"

\* C36: a max_per_repo of 0 is no cap, the call doing what it does with
\* None; a negative max_per_repo stops every partition before its first page
\* request, nothing yielded; neither call raises.
C36_ZeroAndNegativeCap ==
    /\ BothReturned =>
          /\ first[1].max_per_repo = Some(0)
          /\ max_per_repo = None
          /\ first[1].requested = requested
          /\ first[1].out = out
          /\ first[1].stop = stop
          /\ first[1].outcome = outcome
    /\ (max_per_repo # None /\ max_per_repo[1] < 0) =>
          /\ requested = <<>>
          /\ out = <<>>
          /\ Ended => stop = "cap"
    /\ (max_per_repo \in {Some(0), Some(-1)} \/ first # None) => pc # "raised"

\* both calls returned after yielding more than one record from the second
\* of two pages
C36_Witness ==
    /\ BothReturned
    /\ Len(first[1].out) > PageSize
    /\ Len(first[1].requested) >= 2
    /\ first[1].outcome[repos[1]] # first[1].outcome[repos[2]]

\* a negative cap: the call has returned, both partitions stopped on the cap
C36_WitnessNegative ==
    /\ max_per_repo = Some(-1)
    /\ pc = "done"
    /\ \A r \in Repos : outcome[r] = "cap"

-----------------------------------------------------------------------------
(* The proposals pager of the connector, then the one of the load pipeline,
   against the same upstream and with the same max_pages *)

\* fixed upstreams of proposals: an answer for each of the pages 1..MaxPages
PagerUpstreams ==
    {u \in SeqsUpTo(UNION {LidoResponses(p) : p \in 1..MaxPages}, MaxPages) :
        /\ Len(u) = MaxPages
        /\ \A p \in 1..MaxPages : u[p] \in LidoResponses(p)}

InitPagers ==
    /\ pager = "connector"
    /\ max_pages \in {None, Some(1), Some(MaxPages)}
    /\ upstream \in {Some(u) : u \in PagerUpstreams}
    /\ first = None
    /\ order = <<>>
    /\ since_sent = <<>>
    /\ total_yielded = 0
    /\ calls = <<>>
    /\ environment = "prod"
    /\ ProdIdle
    /\ backend_ok = FALSE
    /\ resource = "proposals"
    /\ force_refresh = FALSE
    /\ max_per_repo = None
    /\ db = [r \in Repos |-> RowFresh]
    /\ now = Now
    /\ idx = 1
    /\ repo_name = ""
    /\ pc = "start"
    /\ is_fresh = None
    /\ last_updated = 0
    /\ last_updated_timestamp = 0
    /\ page = 0
    /\ fetched_count = 0
    /\ served = <<>>
    /\ out = <<>>
    /\ stop = ""
    /\ outcome = [r \in Repos |-> ""]
    /\ probe = None
    /\ probe_result = None
    /\ requested = <<>>

\* the connector's proposals has returned; the load pipeline is run with the
\* same max_pages against the same upstream
RunOtherPager ==
    /\ pc = AfterProposals("connector")
    /\ pager = "connector"
    /\ first = None
    /\ first' = Some([requested |-> ProposalRequests, out |-> ProposalsOut, stop |-> stop])
    /\ pager' = "pipeline"
    /\ pc' = "start"
    /\ now' = now + 1
    /\ UNCHANGED <<resource, force_refresh, max_per_repo, db, idx, repo_name, is_fresh,
                   last_updated, last_updated_timestamp, page, fetched_count, served, out,
                   stop, outcome, probe, probe_result, requested, upstream, order,
                   since_sent, prodvars, max_pages, total_yielded, calls>>

NextPagers ==
    \/ LidoStart
    \/ LidoFunds
    \/ LidoMaxPagesStop
    \/ LidoPageRequest
    \/ LidoLoad
    \/ RunOtherPager

SpecPagers == InitPagers /\ [][NextPagers]_vars

\* the ids of the proposals of a sequence of records
IdsOf(recs) == [i \in 1..Len(recs) |-> recs[i].id]

\* proposals of the load pipeline has returned, after the connector's
BothPagersReturned == first # None /\ pager = "pipeline" /\ pc \in {"load", "finished"}

\* C37: against the same upstream answers and with the same max_pages, the
\* pager of the connector and the pager of the load pipeline request the
\* same pages and yield the same proposals.
C37_PagersAgree ==
    BothPagersReturned =>
        /\ first[1].requested = ProposalRequests
        /\ IdsOf(first[1].out) = IdsOf(ProposalsOut)

====
